---- MODULE Spec2Model ----
(***************************************************************************)
(* Model of the provider adapters of jcp:                                  *)
(*   - the OpenAI Responses client (internal/adk/openai): generate,        *)
(*     generateStream, the SSE aggregator processResponsesStream and the   *)
(*     non-streaming parser convertResponsesResponse;                      *)
(*   - the request translators toResponsesInputItems (Responses API) and   *)
(*     toAnthropicRequest / toAnthropicMessages (Messages API);            *)
(*   - the schema sanitizer sanitizeSchemaNode.                            *)
(*                                                                         *)
(* Go strings that are concatenated or split are sequences of tokens; a    *)
(* nil pointer / absent value is the empty sequence and a present one a    *)
(* one-element sequence.                                                   *)
(***************************************************************************)
EXTENDS Integers, Sequences, FiniteSets, TLC

VARIABLES
    pc,                \* position of the call: "start", "scan" (in the loop of
                       \* processResponsesStream), "done" (returned after yielding a
                       \* response), "failed" (returned after yielding an error)
    mode,              \* "none", "generate" or "stream"
    currentEventType,  \* processResponsesStream: currentEventType
    textContent,       \* processResponsesStream: textContent
    toolCallsMap,      \* processResponsesStream: toolCallsMap (item id -> builder)
    usageMetadata,     \* processResponsesStream: usageMetadata (nil = << >>)
    delivered,         \* every (response, error) pair passed to yield, in order
    stoppedAt,         \* Len(delivered) when the caller first returned false from a
                       \* yield of a partial response (0: it never did)
    dispatchedAfterStop, \* a data line was dispatched to a handler after the caller returned false
    httpStatus,        \* status code of the transport reply (0 before the call)
    texts,             \* history: deltas of the well-formed text-delta events dispatched
    itemEvents,        \* history: well-formed function-call item events dispatched
    completions,       \* history: usage of the well-formed completion events dispatched
    corrupted,         \* history: number of malformed data lines dispatched
    afterCorrupt,      \* history: a well-formed event was dispatched after a malformed one
    scanErr,           \* history: why scanner.Scan returned false ("": it has not)
    contents,          \* translators: the request's turns (req.Contents)
    systemInstruction, \* translators: req.Config.SystemInstruction (nil = << >>)
    noSystemRole,      \* translators: provider B has no native system role
    thinkingConfig,    \* translators: req.Config.ThinkingConfig (nil = << >>)
    wireA,             \* translators: output of toResponsesRequest
    wireB,             \* translators: output of toAnthropicRequest
    tpc,               \* translators: "build" (the caller builds the request), "doneA"
                       \* (translated for the Responses API), "doneB" (translated
                       \* for the Messages API)
    schema,            \* sanitizer: the current schema document
    prevSchema,        \* sanitizer: the document before the last application
    napplied,          \* sanitizer: number of applications so far
    decls,             \* tools: the function declarations of the request's tools
    toolsA,            \* tools: outcome of the Responses call's request stage
    toolsB,            \* tools: outcome of convertTools
    parsedB,           \* tools: a Messages API response and what convertAnthropicResponse made of it
    kpc,               \* tools: "build" (the caller declares tools) or "run"
    agg,               \* concurrent calls: the aggregation state of processResponsesStream,
                       \* by the place that holds it
    runs,              \* concurrent calls: each call's position, the lines it has
                       \* scanned and what it has passed to yield
    sessions,          \* session store: ss.sessions (key -> session)
    files,             \* session store: content of the file of each key
    mu,                \* session store: holder of ss.mu (0: unlocked)
    procs,             \* session store: the goroutines calling the store
    sequential,        \* session store: the message list of each key after the calls
                       \* so far, executed one after the other in the order they locked
    nextId,            \* session store: number of identifiers uuid.New has issued
    warnings           \* the warnings recorded through the package loggers, in order

streamVars == <<pc, mode, currentEventType, textContent, toolCallsMap, usageMetadata,
                delivered, stoppedAt, dispatchedAfterStop, httpStatus,
                texts, itemEvents, completions, corrupted, afterCorrupt, scanErr>>
transVars == <<contents, systemInstruction, noSystemRole, thinkingConfig, wireA, wireB, tpc>>
sanVars == <<schema, prevSchema, napplied>>
toolVars == <<decls, toolsA, toolsB, parsedB, kpc>>
concVars == <<agg, runs>>
sessVars == <<sessions, files, mu, procs, sequential, nextId>>
vars == <<streamVars, transVars, sanVars, toolVars, concVars, sessVars, warnings>>

----------------------------------------------------------------------------
(* Bounds *)

MaxEvents == 4      \* data lines dispatched to a handler per stream
MaxCorrupt == 1     \* malformed data lines per stream
MaxTurns == 3       \* turns of a request
MaxParts == 2       \* parts of a request, over all its turns

----------------------------------------------------------------------------
(* Generic helpers *)

RECURSIVE Concat(_)
Concat(ss) == IF ss = << >> THEN << >> ELSE Head(ss) \o Concat(Tail(ss))

Range(s) == { s[i] : i \in 1..Len(s) }

RECURSIVE Perms(_)
Perms(S) == IF S = {} THEN { << >> }
            ELSE UNION { { <<x>> \o p : p \in Perms(S \ {x}) } : x \in S }

----------------------------------------------------------------------------
(* Wire and canonical data of the Responses client *)

EvTextDelta == "response.output_text.delta"
EvFuncArgsDelta == "response.function_call_arguments.delta"
EvOutputItemAdded == "response.output_item.added"
EvOutputItemDone == "response.output_item.done"
EvCompleted == "response.completed"
EvOther == "response.created"

KnownEventTypes == {EvTextDelta, EvFuncArgsDelta, EvOutputItemAdded, EvOutputItemDone,
                    EvCompleted}
EventTypes == KnownEventTypes \cup {EvOther}

\* Tokens of the argument string {"a":1}
ArgOpen == "{\"a\":"
ArgClose == "1}"
FullArgs == <<ArgOpen, ArgClose>>

ItemIds == {"i1", "i2"}
CallNames == { [call_id |-> "c1", name |-> "f"], [call_id |-> "c2", name |-> "g"] }
TextDeltas == { <<"a">>, <<"b">> }
ArgDeltas == { <<ArgOpen>>, <<ArgClose>>, FullArgs }
DoneArguments == { << >>, FullArgs }
WireUsages == { [input_tokens |-> 1, output_tokens |-> 2, total_tokens |-> 3],
                [input_tokens |-> 2, output_tokens |-> 2, total_tokens |-> 5] }

\* ResponsesOutputItem, the fields the client reads; absent fields decode to zero values
OutputItem(type, id, call_id, name, arguments, content) ==
    [type |-> type, id |-> id, call_id |-> call_id, name |-> name,
     arguments |-> arguments, content |-> content]
ZeroItem == OutputItem("", "", "", "", << >>, << >>)

\* The JSON of a data line as json.Unmarshal sees it: ok = FALSE when Unmarshal
\* returns an error; the fields are those of ResponsesTextDelta,
\* ResponsesFuncCallArgsDelta, ResponsesOutputItemAdded/Done and ResponsesCompleted.
Data(ok, delta, item_id, item, usage) ==
    [ok |-> ok, delta |-> delta, item_id |-> item_id, item |-> item, usage |-> usage]
Malformed == Data(FALSE, << >>, "", ZeroItem, << >>)
TextDeltaData(d) == Data(TRUE, d, "", ZeroItem, << >>)
FuncArgsDeltaData(id, d) == Data(TRUE, d, id, ZeroItem, << >>)
ItemData(item) == Data(TRUE, << >>, "", item, << >>)
CompletedData(usage) == Data(TRUE, << >>, "", ZeroItem, usage)

FunctionCallItem(id, cn, arguments) ==
    OutputItem("function_call", id, cn.call_id, cn.name, arguments, << >>)
MessageItem == OutputItem("message", "m1", "", "", << >>, << >>)
NoUsage == << >>

\* The data lines of the streams of Spec, by the event type they follow, and a
\* corrupted one: text in two deltas, the call "i1" announced by an added event and
\* filled by one argument delta, the call "i2" arriving whole in its done event
DataFor(t) ==
    {Malformed} \cup
    CASE t = EvTextDelta -> { TextDeltaData(d) : d \in TextDeltas }
      [] t = EvFuncArgsDelta -> { FuncArgsDeltaData("i1", FullArgs) }
      [] t = EvOutputItemAdded ->
            { ItemData(FunctionCallItem("i1", [call_id |-> "c1", name |-> "f"], << >>)),
              ItemData(MessageItem) }
      [] t = EvOutputItemDone ->
            { ItemData(FunctionCallItem("i2", [call_id |-> "c2", name |-> "g"], FullArgs)) }
      [] t = EvCompleted -> { CompletedData(u) : u \in {NoUsage} \cup { <<w>> : w \in WireUsages } }
      [] OTHER -> { TextDeltaData(<<"a">>) }

\* The data lines of the streams of SpecCalls: every event of the function-call
\* item "i1" (either call id and name, the argument string in any split, a done
\* event with or without the final arguments), one text delta
CallDataFor(t) ==
    {Malformed} \cup
    CASE t = EvTextDelta -> { TextDeltaData(<<"a">>) }
      [] t = EvFuncArgsDelta -> { FuncArgsDeltaData("i1", d) : d \in ArgDeltas }
      [] t = EvOutputItemAdded ->
            { ItemData(FunctionCallItem("i1", cn, << >>)) : cn \in CallNames }
      [] t = EvOutputItemDone ->
            { ItemData(FunctionCallItem("i1", cn, a)) : cn \in CallNames, a \in DoneArguments }
      [] t = EvCompleted -> { CompletedData(NoUsage) }
      [] OTHER -> { TextDeltaData(<<"a">>) }

\* genai.Part, genai.FunctionCall
Part(text, thought, fc, fr) == [text |-> text, thought |-> thought, fc |-> fc, fr |-> fr]
TextPart(text) == Part(text, FALSE, << >>, << >>)
ThoughtPart(text) == Part(text, TRUE, << >>, << >>)
FunctionCall(id, name, args) == [id |-> id, name |-> name, args |-> args]
FunctionCallPart(id, name, args) == Part(<< >>, FALSE, <<FunctionCall(id, name, args)>>, << >>)

\* parseJSONArgs: the argument string parsed into a key/value map (a set of
\* <<key, value>> pairs); a string that is no JSON object gives the empty map
parseJSONArgs(s) == IF s = FullArgs THEN { <<"a", 1>> } ELSE {}

\* genai.GenerateContentResponseUsageMetadata from a ResponsesUsage pointer
UsageMetadata(u) ==
    IF u = << >> THEN << >>
    ELSE << [promptTokens |-> u[1].input_tokens,
             completionTokens |-> u[1].output_tokens,
             totalTokens |-> u[1].total_tokens] >>

\* model.LLMResponse
LLMResponse(parts, usage, finishReason, partial, turnComplete) ==
    [role |-> "model", parts |-> parts, usage |-> usage, finishReason |-> finishReason,
     partial |-> partial, turnComplete |-> turnComplete]

\* One call of yield(resp, err)
YieldResp(resp) == [resp |-> <<resp>>, err |-> << >>]
YieldErr(kind, status, body) ==
    [resp |-> << >>, err |-> << [kind |-> kind, status |-> status, body |-> body] >>]

\* responsesToolCallBuilder
Builder(itemID, callID, name, args) ==
    [itemID |-> itemID, callID |-> callID, name |-> name, args |-> args]

EmptyMap == [k \in {} |-> Builder("", "", "", << >>)]
MapPut(m, k, v) == [x \in (DOMAIN m) \cup {k} |-> IF x = k THEN v ELSE m[x]]

----------------------------------------------------------------------------
(* Event handlers of processResponsesStream *)

\* Mutant of handleTextDelta: the partial response carries the running text
handleTextDelta_RunningText(data, text) ==
    IF ~data.ok THEN [textContent |-> text, yields |-> << >>]
    ELSE [textContent |-> text \o data.delta,
          yields |-> << YieldResp(LLMResponse(<<TextPart(text \o data.delta)>>, << >>, "",
                                              TRUE, FALSE)) >>]

\* Mutant of handleTextDelta: the Unmarshal error is not checked
handleTextDelta_NoErrorCheck(data, text) ==
    [textContent |-> text \o data.delta,
     yields |-> << YieldResp(LLMResponse(<<TextPart(data.delta)>>, << >>, "", TRUE, FALSE)) >>]

\* handleTextDelta: the new running text and the responses it yields
handleTextDelta(data, text) ==
    IF ~data.ok THEN [textContent |-> text, yields |-> << >>]
    ELSE [textContent |-> text \o data.delta,
          yields |-> << YieldResp(LLMResponse(<<TextPart(data.delta)>>, << >>, "", TRUE, FALSE)) >>]

\* Mutant of handleFuncArgsDelta: the delta replaces the buffer
handleFuncArgsDelta_Overwrite(data, m) ==
    IF ~data.ok THEN m
    ELSE IF data.item_id \in DOMAIN m
         THEN [m EXCEPT ![data.item_id].args = data.delta]
         ELSE m

\* Mutant of handleFuncArgsDelta: a delta for an unknown item starts a builder
handleFuncArgsDelta_CreatesBuilder(data, m) ==
    IF ~data.ok THEN m
    ELSE IF data.item_id \in DOMAIN m
         THEN [m EXCEPT ![data.item_id].args = @ \o data.delta]
         ELSE MapPut(m, data.item_id, Builder(data.item_id, "", "", data.delta))

handleFuncArgsDelta(data, m) ==
    IF ~data.ok THEN m
    ELSE IF data.item_id \in DOMAIN m
         THEN [m EXCEPT ![data.item_id].args = @ \o data.delta]
         ELSE m

\* Mutant of handleOutputItemAdded: the new builder replaces the whole map
handleOutputItemAdded_ResetsMap(data, m) ==
    IF ~data.ok THEN m
    ELSE IF data.item.type = "function_call"
         THEN MapPut(EmptyMap, data.item.id,
                     Builder(data.item.id, data.item.call_id, data.item.name, << >>))
         ELSE m

handleOutputItemAdded(data, m) ==
    IF ~data.ok THEN m
    ELSE IF data.item.type = "function_call"
         THEN MapPut(m, data.item.id,
                     Builder(data.item.id, data.item.call_id, data.item.name, << >>))
         ELSE m

\* Mutant of handleOutputItemDone: an existing builder keeps its call id and name
handleOutputItemDone_KeepsIdentity(data, m) ==
    IF ~data.ok THEN m
    ELSE IF data.item.type = "function_call"
         THEN IF data.item.id \in DOMAIN m
              THEN [m EXCEPT ![data.item.id].args =
                      IF data.item.arguments # << >> THEN data.item.arguments ELSE @]
              ELSE MapPut(m, data.item.id,
                          Builder(data.item.id, data.item.call_id, data.item.name,
                                  data.item.arguments))
         ELSE m

handleOutputItemDone(data, m) ==
    IF ~data.ok THEN m
    ELSE IF data.item.type = "function_call"
         THEN IF data.item.id \in DOMAIN m
              THEN [m EXCEPT ![data.item.id] =
                      Builder(@.itemID, data.item.call_id, data.item.name,
                              IF data.item.arguments # << >>
                              THEN data.item.arguments ELSE @.args)]
              ELSE MapPut(m, data.item.id,
                          Builder(data.item.id, data.item.call_id, data.item.name,
                                  data.item.arguments))
         ELSE m

handleCompleted(data, usage) ==
    IF ~data.ok THEN usage
    ELSE IF data.usage # << >> THEN UsageMetadata(data.usage) ELSE usage

\* Mutant of FinalResponse: the text part is appended also when the text is empty
FinalResponse_AlwaysText(text, m, order, usage) ==
    LLMResponse(
        <<TextPart(text)>> \o
        [i \in 1..Len(order) |->
            FunctionCallPart(m[order[i]].callID, m[order[i]].name,
                             parseJSONArgs(m[order[i]].args))],
        usage, "STOP", FALSE, TRUE)

\* The assembly of the final aggregated response; order is the order in which the
\* range over toolCallsMap visits the builders
FinalResponse(text, m, order, usage) ==
    LLMResponse(
        (IF text # << >> THEN <<TextPart(text)>> ELSE << >>) \o
        [i \in 1..Len(order) |->
            FunctionCallPart(m[order[i]].callID, m[order[i]].name,
                             parseJSONArgs(m[order[i]].args))],
        usage, "STOP", FALSE, TRUE)

----------------------------------------------------------------------------
(* Non-streaming parser of the Responses client *)

ContentPart(type, text) == [type |-> type, text |-> text]

\* The parts one output item contributes (the body of the loop over resp.Output)
RECURSIVE MessageParts(_)
MessageParts(content) ==
    IF content = << >> THEN << >>
    ELSE (CASE Head(content).type = "output_text" -> <<TextPart(Head(content).text)>>
            [] Head(content).type = "reasoning" -> <<ThoughtPart(Head(content).text)>>
            [] OTHER -> << >>)
         \o MessageParts(Tail(content))

ItemParts(item) ==
    CASE item.type = "message" -> MessageParts(item.content)
      [] item.type = "function_call" ->
            <<FunctionCallPart(item.call_id, item.name, parseJSONArgs(item.arguments))>>
      [] OTHER -> << >>

\* Mutant of convertResponsesResponse: an empty output list is parsed like any other
convertResponsesResponse_NoEmptyCheck(resp) ==
    [resp |-> << LLMResponse(Concat([i \in 1..Len(resp.output) |-> ItemParts(resp.output[i])]),
                             UsageMetadata(resp.usage), "STOP", FALSE, TRUE) >>,
     err |-> ""]

\* convertResponsesResponse: (response, error); error "" is nil
convertResponsesResponse(resp) ==
    IF Len(resp.output) = 0
    THEN [resp |-> << >>, err |-> "ErrNoChoicesInResponse"]
    ELSE [resp |-> << LLMResponse(Concat([i \in 1..Len(resp.output) |-> ItemParts(resp.output[i])]),
                                  UsageMetadata(resp.usage), "STOP", FALSE, TRUE) >>,
          err |-> ""]

\* CreateResponseResponse as decoded from the reply body
ApiResponse(output, usage) == [output |-> output, usage |-> usage]

\* Reply bodies of the transport: raw names the bytes, decodeOk whether
\* json.Decode accepts them as a CreateResponseResponse
Body(raw, decodeOk, resp) == [raw |-> raw, decodeOk |-> decodeOk, resp |-> resp]
Bodies ==
    { Body("not json", FALSE, ApiResponse(<< >>, << >>)),
      Body("no output", TRUE, ApiResponse(<< >>, << >>)),
      Body("call", TRUE,
           ApiResponse(<<OutputItem("function_call", "i1", "c1", "f", FullArgs, << >>)>>,
                       << [input_tokens |-> 1, output_tokens |-> 2, total_tokens |-> 3] >>)),
      Body("message", TRUE,
           ApiResponse(<<OutputItem("message", "m1", "", "", << >>,
                                    <<ContentPart("reasoning", <<"t">>),
                                      ContentPart("output_text", <<"a">>),
                                      ContentPart("refusal", <<"r">>)>>),
                         OutputItem("function_call", "i2", "c2", "g", << >>, << >>)>>,
                       << >>)) }

StatusCodes == {101, 200, 204, 304, 404, 500}

\* The status test of generate and generateStream
IsErrorStatus(status) == status < 200 \/ status >= 400

----------------------------------------------------------------------------
(* The Responses call: generate, generateStream, processResponsesStream *)

Dispatched == Len(texts) + Len(itemEvents) + Len(completions) + corrupted

TransIdle ==
    /\ contents = << >>
    /\ systemInstruction = << >>
    /\ noSystemRole = FALSE
    /\ thinkingConfig = << >>
    /\ wireA = [input |-> << >>, instructions |-> << >>, reasoning |-> << >>]
    /\ wireB = [system |-> << >>, messages |-> << >>]
    /\ tpc = "idle"

SanIdle ==
    /\ schema = [k \in {} |-> << >>]
    /\ prevSchema = [k \in {} |-> << >>]
    /\ napplied = 0

ToolIdle ==
    /\ decls = << >>
    /\ toolsA = << >>
    /\ toolsB = << >>
    /\ parsedB = << >>
    /\ kpc = "idle"

ConcIdle ==
    /\ agg = << >>
    /\ runs = << >>

SessIdle ==
    /\ sessions = << >>
    /\ files = << >>
    /\ mu = 0
    /\ procs = << >>
    /\ sequential = << >>
    /\ nextId = 0

StreamIdle ==
    /\ pc = "idle"
    /\ mode = "none"
    /\ currentEventType = ""
    /\ textContent = << >>
    /\ toolCallsMap = EmptyMap
    /\ usageMetadata = << >>
    /\ delivered = << >>
    /\ stoppedAt = 0
    /\ dispatchedAfterStop = FALSE
    /\ httpStatus = 0
    /\ texts = << >>
    /\ itemEvents = << >>
    /\ completions = << >>
    /\ corrupted = 0
    /\ afterCorrupt = FALSE
    /\ scanErr = ""

Init ==
    /\ pc = "start"
    /\ mode = "none"
    /\ currentEventType = ""
    /\ textContent = << >>
    /\ toolCallsMap = EmptyMap
    /\ usageMetadata = << >>
    /\ delivered = << >>
    /\ stoppedAt = 0
    /\ dispatchedAfterStop = FALSE
    /\ httpStatus = 0
    /\ texts = << >>
    /\ itemEvents = << >>
    /\ completions = << >>
    /\ corrupted = 0
    /\ afterCorrupt = FALSE
    /\ scanErr = ""
    /\ TransIdle
    /\ SanIdle
    /\ ToolIdle
    /\ ConcIdle
    /\ SessIdle
    /\ warnings = << >>

histVars == <<texts, itemEvents, completions, corrupted, afterCorrupt, scanErr>>
aggVars == <<currentEventType, textContent, toolCallsMap, usageMetadata>>

\* What generate yields for a transport outcome (netErr: doRequest returned an error)
generateYield(netErr, status, body) ==
    IF netErr THEN YieldErr("transport", 0, "")
    ELSE IF IsErrorStatus(status) THEN YieldErr("http", status, body.raw)
    ELSE IF ~body.decodeOk THEN YieldErr("decode", 0, "")
    ELSE LET r == convertResponsesResponse(body.resp)
         IN IF r.err # "" THEN YieldErr(r.err, 0, "") ELSE YieldResp(r.resp[1])

\* generate: one non-streaming call
generate(netErr, status, body) ==
    /\ pc = "start"
    /\ mode' = "generate"
    /\ httpStatus' = IF netErr THEN 0 ELSE status
    /\ delivered' = <<generateYield(netErr, status, body)>>
    /\ pc' = IF generateYield(netErr, status, body).err # << >> THEN "failed" ELSE "done"
    /\ UNCHANGED <<aggVars, histVars, stoppedAt, dispatchedAfterStop>>
    /\ UNCHANGED <<transVars, sanVars, toolVars, concVars, sessVars, warnings>>

\* generateStream up to the call of processResponsesStream, which allocates the
\* aggregation state
generateStream(netErr, status, body) ==
    /\ pc = "start"
    /\ mode' = "stream"
    /\ httpStatus' = IF netErr THEN 0 ELSE status
    /\ IF netErr
       THEN delivered' = <<YieldErr("transport", 0, "")>> /\ pc' = "failed"
       ELSE IF IsErrorStatus(status)
            THEN delivered' = <<YieldErr("http", status, body.raw)>> /\ pc' = "failed"
            ELSE delivered' = << >> /\ pc' = "scan"
    /\ currentEventType' = ""
    /\ textContent' = << >>
    /\ toolCallsMap' = EmptyMap
    /\ usageMetadata' = << >>
    /\ UNCHANGED <<histVars, stoppedAt, dispatchedAfterStop>>
    /\ UNCHANGED <<transVars, sanVars, toolVars, concVars, sessVars, warnings>>

\* Loop iteration on a line "event: <type>"
ScanEventLine(t) ==
    /\ pc = "scan"
    /\ currentEventType' = t
    /\ UNCHANGED <<pc, mode, textContent, toolCallsMap, usageMetadata, delivered,
                   stoppedAt, dispatchedAfterStop, httpStatus, histVars>>
    /\ UNCHANGED <<transVars, sanVars, toolVars, concVars, sessVars, warnings>>

\* Loop iteration on a line that is neither an event line nor a data line with data
ScanOtherLine ==
    /\ pc = "scan"
    /\ UNCHANGED streamVars
    /\ UNCHANGED <<transVars, sanVars, toolVars, concVars, sessVars, warnings>>

\* Loop iteration on a line "data: <json>": the switch on currentEventType.
\* cont is what the caller returns from yield.
ScanDataLine(data, cont) ==
    /\ pc = "scan"
    /\ currentEventType \in KnownEventTypes =>
          /\ Dispatched < MaxEvents
          /\ ~data.ok => corrupted < MaxCorrupt
    /\ LET t == currentEventType
           r == IF t = EvTextDelta THEN handleTextDelta(data, textContent)
                ELSE [textContent |-> textContent, yields |-> << >>]
       IN /\ textContent' = r.textContent
          /\ delivered' = delivered \o r.yields
          /\ stoppedAt' = IF stoppedAt = 0 /\ r.yields # << >> /\ ~cont
                          THEN Len(delivered') ELSE stoppedAt
          /\ toolCallsMap' =
                CASE t = EvFuncArgsDelta -> handleFuncArgsDelta(data, toolCallsMap)
                  [] t = EvOutputItemAdded -> handleOutputItemAdded(data, toolCallsMap)
                  [] t = EvOutputItemDone -> handleOutputItemDone(data, toolCallsMap)
                  [] OTHER -> toolCallsMap
          /\ usageMetadata' = IF t = EvCompleted THEN handleCompleted(data, usageMetadata)
                              ELSE usageMetadata
          /\ currentEventType' = ""
          /\ dispatchedAfterStop' = (dispatchedAfterStop \/ (stoppedAt > 0 /\ t \in KnownEventTypes))
          \* history of the stream
          /\ texts' = IF t = EvTextDelta /\ data.ok THEN Append(texts, data.delta) ELSE texts
          /\ itemEvents' =
                IF t \in {EvFuncArgsDelta, EvOutputItemAdded, EvOutputItemDone} /\ data.ok
                THEN Append(itemEvents, [type |-> t, data |-> data]) ELSE itemEvents
          /\ completions' = IF t = EvCompleted /\ data.ok
                            THEN Append(completions, data.usage) ELSE completions
          /\ corrupted' = IF t \in KnownEventTypes /\ ~data.ok THEN corrupted + 1
                          ELSE corrupted
          /\ afterCorrupt' = (afterCorrupt \/ (corrupted > 0 /\ t \in KnownEventTypes /\ data.ok))
    /\ UNCHANGED <<pc, mode, httpStatus, scanErr>>
    /\ UNCHANGED <<transVars, sanVars, toolVars, concVars, sessVars, warnings>>

\* Why scanner.Scan returns false: the body ended, or scanner.Err() is not nil (a
\* read error, or bufio.ErrTooLong on a line longer than the scanner's buffer)
ScanEnds == {"EOF", "error"}

\* Mutant of ScanEnd: an error of the scanner is yielded instead of the final response
ScanEnd_YieldsError(order, end) ==
    /\ pc = "scan"
    /\ delivered' = Append(delivered,
                           IF end = "EOF"
                           THEN YieldResp(FinalResponse(textContent, toolCallsMap, order,
                                                        usageMetadata))
                           ELSE YieldErr("read", 0, ""))
    /\ pc' = "done"
    /\ scanErr' = end
    /\ UNCHANGED <<mode, aggVars, stoppedAt, dispatchedAfterStop, httpStatus,
                   texts, itemEvents, completions, corrupted, afterCorrupt>>
    /\ UNCHANGED <<transVars, sanVars, toolVars, concVars, sessVars, warnings>>

\* scanner.Scan returns false: the loop ends, scanner.Err() is not consulted, and
\* the final response is assembled and yielded
ScanEnd(order, end) ==
    /\ pc = "scan"
    /\ delivered' = Append(delivered,
                           YieldResp(FinalResponse(textContent, toolCallsMap, order,
                                                   usageMetadata)))
    /\ pc' = "done"
    /\ scanErr' = end
    /\ UNCHANGED <<mode, aggVars, stoppedAt, dispatchedAfterStop, httpStatus,
                   texts, itemEvents, completions, corrupted, afterCorrupt>>
    /\ UNCHANGED <<transVars, sanVars, toolVars, concVars, sessVars, warnings>>

Next ==
    \/ \E netErr \in BOOLEAN, status \in StatusCodes, body \in Bodies :
          generate(netErr, status, body)
    \/ \E netErr \in BOOLEAN, status \in StatusCodes, body \in Bodies :
          generateStream(netErr, status, body)
    \/ \E t \in EventTypes : ScanEventLine(t)
    \/ ScanOtherLine
    \/ \E data \in DataFor(currentEventType), cont \in BOOLEAN : ScanDataLine(data, cont)
    \/ \E order \in Perms(DOMAIN toolCallsMap), end \in ScanEnds : ScanEnd(order, end)

Spec == Init /\ [][Next]_vars

\* The same call, fed the streams of CallDataFor
NextCalls ==
    \/ \E netErr \in BOOLEAN, status \in StatusCodes, body \in Bodies :
          generate(netErr, status, body)
    \/ \E netErr \in BOOLEAN, status \in StatusCodes, body \in Bodies :
          generateStream(netErr, status, body)
    \/ \E t \in EventTypes : ScanEventLine(t)
    \/ ScanOtherLine
    \/ \E data \in CallDataFor(currentEventType), cont \in BOOLEAN : ScanDataLine(data, cont)
    \/ \E order \in Perms(DOMAIN toolCallsMap), end \in ScanEnds : ScanEnd(order, end)

SpecCalls == Init /\ [][NextCalls]_vars

----------------------------------------------------------------------------
(* Properties of the Responses call *)

IsPartialOf(y, delta) ==
    /\ y.err = << >>
    /\ Len(y.resp) = 1
    /\ y.resp[1].partial = TRUE
    /\ y.resp[1].turnComplete = FALSE
    /\ y.resp[1].parts = << [text |-> delta, thought |-> FALSE, fc |-> << >>, fr |-> << >>] >>

IsFinal(y) == y.err = << >> /\ Len(y.resp) = 1 /\ y.resp[1].partial = FALSE

StreamFinished == mode = "stream" /\ pc = "done"

\* The usage of the last completion event that carries one
RECURSIVE LastUsage(_)
LastUsage(cs) ==
    IF cs = << >> THEN << >>
    ELSE IF cs[Len(cs)] # << >>
         THEN << [promptTokens |-> cs[Len(cs)][1].input_tokens,
                  completionTokens |-> cs[Len(cs)][1].output_tokens,
                  totalTokens |-> cs[Len(cs)][1].total_tokens] >>
         ELSE LastUsage(SubSeq(cs, 1, Len(cs) - 1))

\* C1: once the caller has returned the stop signal from the delivery of a partial
\* response, no later data line is dispatched and no further response is delivered.
C1_StopEndsProcessing ==
    stoppedAt > 0 => (~dispatchedAfterStop /\ Len(delivered) = stoppedAt)

\* C2: when a stream has been consumed to its end, the responses delivered are one
\* partial response per well-formed text-delta event, in stream order, each
\* partial=true, turnComplete=false with one text part holding that event's delta,
\* followed by the final response (partial=false), which is the last delivery.
C2_PartialsThenFinal ==
    StreamFinished =>
        /\ Len(delivered) = Len(texts) + 1
        /\ \A i \in 1..Len(texts) : IsPartialOf(delivered[i], texts[i])
        /\ IsFinal(delivered[Len(delivered)])

C2_Witness ==
    /\ StreamFinished
    /\ Len(texts) = 2
    /\ texts[1] # texts[2]
    /\ DOMAIN toolCallsMap # {}

\* C3: at the end of the stream exactly one final response is emitted: a text part
\* with the concatenation of all text deltas (only if that text is non-empty), then
\* one function-call part per builder of the builder map, the usage of the
\* completion event, finishReason Stop, partial=false, turnComplete=true.
C3_FinalResponse ==
    StreamFinished =>
        LET final == delivered[Len(delivered)].resp[1]
            text == Concat(texts)
            ntext == IF text # << >> THEN 1 ELSE 0
            calls == SubSeq(final.parts, ntext + 1, Len(final.parts))
        IN /\ Cardinality({ i \in 1..Len(delivered) : IsFinal(delivered[i]) }) = 1
           /\ IsFinal(delivered[Len(delivered)])
           /\ text # << >> =>
                 final.parts[1] = [text |-> text, thought |-> FALSE, fc |-> << >>, fr |-> << >>]
           /\ \E order \in Perms(DOMAIN toolCallsMap) :
                 /\ Len(calls) = Len(order)
                 /\ \A i \in 1..Len(order) :
                       /\ calls[i].text = << >>
                       /\ calls[i].fr = << >>
                       /\ calls[i].fc = << [id |-> toolCallsMap[order[i]].callID,
                                            name |-> toolCallsMap[order[i]].name,
                                            args |-> parseJSONArgs(toolCallsMap[order[i]].args)] >>
           /\ final.usage = LastUsage(completions)
           /\ final.finishReason = "STOP"
           /\ final.turnComplete = TRUE

C3_Witness ==
    /\ StreamFinished
    /\ Concat(texts) # << >>
    /\ Cardinality(DOMAIN toolCallsMap) = 2
    /\ LastUsage(completions) # << >>

\* The builder map the handlers build from a sequence of well-formed item events
RECURSIVE ReplayItems(_)
ReplayItems(evs) ==
    IF evs = << >> THEN EmptyMap
    ELSE LET m == ReplayItems(SubSeq(evs, 1, Len(evs) - 1))
             e == evs[Len(evs)]
         IN CASE e.type = EvFuncArgsDelta -> handleFuncArgsDelta(e.data, m)
              [] e.type = EvOutputItemAdded -> handleOutputItemAdded(e.data, m)
              [] e.type = EvOutputItemDone -> handleOutputItemDone(e.data, m)

\* C7: a malformed data line changes nothing and delivers nothing, and aggregation
\* goes on: at every point of the stream the running text, the builder map, the
\* captured usage and the partial responses delivered are those of the well-formed
\* events alone, as if the malformed events were absent from the stream.
C7_CorruptedEventSkipped ==
    (mode = "stream" /\ pc # "start" /\ pc # "failed") =>
        /\ pc \in {"scan", "done"}
        /\ textContent = Concat(texts)
        /\ toolCallsMap = ReplayItems(itemEvents)
        /\ usageMetadata = LastUsage(completions)
        /\ Len(delivered) = Len(texts) + (IF pc = "done" THEN 1 ELSE 0)
        /\ \A i \in 1..Len(texts) : IsPartialOf(delivered[i], texts[i])

C7_Witness ==
    /\ StreamFinished
    /\ corrupted > 0
    /\ afterCorrupt
    /\ Len(texts) > 0
    /\ DOMAIN toolCallsMap # {}

\* C8: for every transport status that is not 2xx, generate and generateStream
\* deliver exactly one error carrying the status code and deliver no response.
C8_Non2xxIsOneError ==
    (pc # "start" /\ httpStatus # 0 /\ httpStatus \notin 200..299) =>
        /\ pc = "failed"
        /\ Len(delivered) = 1
        /\ delivered[1].resp = << >>
        /\ Len(delivered[1].err) = 1
        /\ delivered[1].err[1].kind = "http"
        /\ delivered[1].err[1].status = httpStatus

FunctionCallParts(resp) == SelectSeq(resp.parts, LAMBDA part : part.fc # << >>)

\* The stream carried, for one function-call item, an added event, then argument
\* deltas only, then a done event with the same call id and name whose arguments
\* are absent or the concatenation of the deltas
ScriptedCall ==
    /\ Len(itemEvents) >= 2
    /\ LET first == itemEvents[1]
           last == itemEvents[Len(itemEvents)]
           deltas == [i \in 1..(Len(itemEvents) - 2) |-> itemEvents[i + 1].data.delta]
       IN /\ first.type = EvOutputItemAdded
          /\ first.data.item.type = "function_call"
          /\ last.type = EvOutputItemDone
          /\ last.data.item.type = "function_call"
          /\ last.data.item.id = first.data.item.id
          /\ last.data.item.call_id = first.data.item.call_id
          /\ last.data.item.name = first.data.item.name
          /\ \A i \in 2..(Len(itemEvents) - 1) :
                /\ itemEvents[i].type = EvFuncArgsDelta
                /\ itemEvents[i].data.item_id = first.data.item.id
          /\ last.data.item.arguments \in {<< >>, Concat(deltas)}

ScriptedArguments ==
    Concat([i \in 1..(Len(itemEvents) - 2) |-> itemEvents[i + 1].data.delta])

\* C9: for a function-call item whose argument string arrives split into argument
\* deltas between its added and done events, the function-call part of the final
\* streamed response is the part the non-streaming parser produces for one
\* function_call output item with the same call id, name and argument string.
C9_StreamedCallIsParsedCall ==
    (StreamFinished /\ ScriptedCall) =>
        LET item == itemEvents[1].data.item
            whole == OutputItem("function_call", item.id, item.call_id, item.name,
                                ScriptedArguments, << >>)
            parsed == convertResponsesResponse(ApiResponse(<<whole>>, << >>))
        IN FunctionCallParts(delivered[Len(delivered)].resp[1]) = parsed.resp[1].parts

C9_Witness ==
    /\ StreamFinished
    /\ ScriptedCall
    /\ Len(itemEvents) = 4
    /\ ScriptedArguments = FullArgs
    /\ itemEvents[4].data.item.arguments = << >>

\* C10: when the stream carries one added and one done event for the same
\* function-call item (same item id, call id and name), in either order, the final
\* response has exactly one
\* function-call part, with the call id, name and arguments of the done event.
C10_DoneAndAddedInEitherOrder ==
    (/\ StreamFinished
     /\ Len(itemEvents) = 2
     /\ {itemEvents[1].type, itemEvents[2].type} = {EvOutputItemAdded, EvOutputItemDone}
     /\ itemEvents[1].data.item.type = "function_call"
     /\ itemEvents[2].data.item.type = "function_call"
     /\ itemEvents[1].data.item.id = itemEvents[2].data.item.id
     /\ itemEvents[1].data.item.call_id = itemEvents[2].data.item.call_id
     /\ itemEvents[1].data.item.name = itemEvents[2].data.item.name) =>
        LET done == IF itemEvents[1].type = EvOutputItemDone
                    THEN itemEvents[1].data.item ELSE itemEvents[2].data.item
        IN FunctionCallParts(delivered[Len(delivered)].resp[1]) =
              << [text |-> << >>, thought |-> FALSE, fr |-> << >>,
                  fc |-> << [id |-> done.call_id, name |-> done.name,
                             args |-> parseJSONArgs(done.arguments)] >>] >>

----------------------------------------------------------------------------
(* Request translators *)

\* genai.FunctionResponse; response is the JSON text json.Marshal gives for the
\* Response value
FunctionResponse(id, response) == [id |-> id, response |-> response]
FunctionResponsePart(id, response) ==
    Part(<< >>, FALSE, << >>, <<FunctionResponse(id, response)>>)

\* json.Marshal of an argument map
MarshalArgs(args) == IF args = { <<"a", 1>> } THEN FullArgs ELSE <<"{}">>

\* genai.Content
Content(role, parts) == [role |-> role, parts |-> parts]

\* The parts a request is built from. Thought text is the token "t" alone, so that
\* it can be told from the other text of the request.
ThoughtToken == "t"
RequestParts ==
    { TextPart(<<"x">>),
      ThoughtPart(<<ThoughtToken>>),
      FunctionCallPart("c1", "f", { <<"a", 1>> }),
      FunctionResponsePart("c1", <<"{\"ok\":true}">>) }
Roles == {"user", "model", "system"}
SystemInstructions ==
    { << >>,
      << Content("system", <<ThoughtPart(<<ThoughtToken>>), TextPart(<<"s">>), TextPart(<<"x">>)>>) >>,
      << Content("system", <<ThoughtPart(<<ThoughtToken>>)>>) >> }

\* strings.Join(texts, "\n")
RECURSIVE JoinLines(_)
JoinLines(ts) ==
    IF ts = << >> THEN << >>
    ELSE IF Len(ts) = 1 THEN ts[1]
    ELSE ts[1] \o <<"\n">> \o JoinLines(Tail(ts))

\* extractTextFromContent (content is a pointer: nil = << >>)
extractTextFromContent(content) ==
    IF content = << >> THEN << >>
    ELSE LET kept == SelectSeq(content[1].parts,
                               LAMBDA part : part.text # << >> /\ ~part.thought)
         IN JoinLines([i \in 1..Len(kept) |-> kept[i].text])

\* ---- Responses API (provider A)

\* ResponsesInputItem
InputItem(type, role, content, call_id, output, id, name, arguments) ==
    [type |-> type, role |-> role, content |-> content, call_id |-> call_id,
     output |-> output, id |-> id, name |-> name, arguments |-> arguments]

convertRoleForResponses(role) ==
    CASE role = "user" -> "user"
      [] role = "model" -> "assistant"
      [] role = "system" -> "system"
      [] OTHER -> "user"

\* First loop of toResponsesInputItem: the function_call_output items
RECURSIVE OutputItems(_)
OutputItems(parts) ==
    IF parts = << >> THEN << >>
    ELSE (IF Head(parts).fr # << >>
          THEN << InputItem("function_call_output", "", << >>, Head(parts).fr[1].id,
                            Head(parts).fr[1].response, "", "", << >>) >>
          ELSE << >>)
         \o OutputItems(Tail(parts))

\* Second loop of toResponsesInputItem: the collected text
RECURSIVE CollectedText(_)
CollectedText(parts) ==
    IF parts = << >> THEN << >>
    ELSE (IF Head(parts).fr = << >> /\ Head(parts).text # << >> /\ ~Head(parts).thought
          THEN Head(parts).text ELSE << >>)
         \o CollectedText(Tail(parts))

\* Mutant of CollectedText: the text of thought parts is collected too
RECURSIVE CollectedTextAndThoughts(_)
CollectedTextAndThoughts(parts) ==
    IF parts = << >> THEN << >>
    ELSE (IF Head(parts).fr = << >> /\ Head(parts).text # << >>
          THEN Head(parts).text ELSE << >>)
         \o CollectedTextAndThoughts(Tail(parts))

\* Mutant of ToolCallItems: the call id is written to the id field only
RECURSIVE ToolCallItems_NoCallId(_)
ToolCallItems_NoCallId(parts) ==
    IF parts = << >> THEN << >>
    ELSE (IF Head(parts).fr = << >> /\ Head(parts).fc # << >>
          THEN << InputItem("function_call", "", << >>, "", << >>,
                            Head(parts).fc[1].id, Head(parts).fc[1].name,
                            MarshalArgs(Head(parts).fc[1].args)) >>
          ELSE << >>)
         \o ToolCallItems_NoCallId(Tail(parts))

\* Second loop of toResponsesInputItem: the function_call items
RECURSIVE ToolCallItems(_)
ToolCallItems(parts) ==
    IF parts = << >> THEN << >>
    ELSE (IF Head(parts).fr = << >> /\ Head(parts).fc # << >>
          THEN << InputItem("function_call", "", << >>, Head(parts).fc[1].id, << >>,
                            Head(parts).fc[1].id, Head(parts).fc[1].name,
                            MarshalArgs(Head(parts).fc[1].args)) >>
          ELSE << >>)
         \o ToolCallItems(Tail(parts))

\* Mutant of toResponsesInputItem: the message text includes thought parts
toResponsesInputItem_WithThoughts(content) ==
    OutputItems(content.parts)
    \o (IF CollectedTextAndThoughts(content.parts) # << >>
        THEN << InputItem("", convertRoleForResponses(content.role),
                          CollectedTextAndThoughts(content.parts), "", << >>, "", "", << >>) >>
        ELSE << >>)
    \o ToolCallItems(content.parts)

\* Mutant of toResponsesInputItem: the function_call items come before the message
toResponsesInputItem_CallsFirst(content) ==
    OutputItems(content.parts)
    \o ToolCallItems(content.parts)
    \o (IF CollectedText(content.parts) # << >>
        THEN << InputItem("", convertRoleForResponses(content.role),
                          CollectedText(content.parts), "", << >>, "", "", << >>) >>
        ELSE << >>)

toResponsesInputItem(content) ==
    OutputItems(content.parts)
    \o (IF CollectedText(content.parts) # << >>
        THEN << InputItem("", convertRoleForResponses(content.role),
                          CollectedText(content.parts), "", << >>, "", "", << >>) >>
        ELSE << >>)
    \o ToolCallItems(content.parts)

toResponsesInputItems(cs) == Concat([i \in 1..Len(cs) |-> toResponsesInputItem(cs[i])])

\* The extractTextFromContent of package openai, which toResponsesRequest calls
\* for the instructions field
openaiExtractTextFromContent(content) == extractTextFromContent(content)

\* genai.ThinkingLevel: unspecified (the zero value), and the named levels
ThinkingLevelUnspecified == "THINKING_LEVEL_UNSPECIFIED"
ThinkingLevels == {ThinkingLevelUnspecified, "LOW", "MEDIUM", "HIGH", "MINIMAL"}

\* genai.ThinkingConfig pointers: nil, or a configuration with a level
NoThinking == << >>
ThinkingConfigs == {NoThinking} \cup { << [ThinkingLevel |-> l] >> : l \in ThinkingLevels }

\* Mutant of ResponsesReasoning: every level but low is sent as high
ResponsesReasoning_HighByDefault(thinking) ==
    IF thinking = << >> THEN << >>
    ELSE << [effort |-> IF thinking[1].ThinkingLevel = "LOW" THEN "low" ELSE "high"] >>

\* The reasoning field of the request (a *ResponsesReasoning: nil = << >>)
ResponsesReasoning(thinking) ==
    IF thinking = << >> THEN << >>
    ELSE << [effort |-> CASE thinking[1].ThinkingLevel = "LOW" -> "low"
                          [] thinking[1].ThinkingLevel = "HIGH" -> "high"
                          [] OTHER -> "medium"] >>

\* toResponsesRequest: the input items, the instructions and the reasoning
toResponsesRequest(cs, system, thinking) ==
    [input |-> toResponsesInputItems(cs),
     instructions |-> IF system # << >> THEN openaiExtractTextFromContent(system) ELSE << >>,
     reasoning |-> ResponsesReasoning(thinking)]

\* ---- Messages API (provider B)

\* ContentBlock
ContentBlock(type, text, id, name, input, tool_use_id, content) ==
    [type |-> type, text |-> text, id |-> id, name |-> name, input |-> input,
     tool_use_id |-> tool_use_id, content |-> content]
TextBlock(text) == ContentBlock("text", text, "", "", << >>, "", << >>)
Message(role, content) == [role |-> role, content |-> content]

\* toToolResultContent: the marshalled response, JSON-encoded once more as a string
toToolResultContent(response) == <<"\"">> \o response \o <<"\"">>

\* The blocks of one part (the body of the loop over content.Parts)
PartBlocks(part) ==
    IF part.thought THEN << >>
    ELSE (IF part.text # << >> THEN <<TextBlock(part.text)>> ELSE << >>)
         \o (IF part.fc # << >>
             THEN << ContentBlock("tool_use", << >>, part.fc[1].id, part.fc[1].name,
                                  MarshalArgs(part.fc[1].args), "", << >>) >>
             ELSE << >>)
         \o (IF part.fr # << >>
             THEN << ContentBlock("tool_result", << >>, "", "", << >>, part.fr[1].id,
                                  toToolResultContent(part.fr[1].response)) >>
             ELSE << >>)

TurnBlocks(content) == Concat([i \in 1..Len(content.parts) |-> PartBlocks(content.parts[i])])

\* Mutant of appendTurn: a turn always starts a new message
appendTurn_NoMerge(msgs, content) ==
    LET role == IF content.role = "model" THEN "assistant" ELSE "user"
        blocks == TurnBlocks(content)
    IN IF blocks = << >> THEN msgs
       ELSE Append(msgs, Message(role, blocks))

\* Mutant of appendTurn: the blocks of a merged turn go in front of the message
appendTurn_MergeInFront(msgs, content) ==
    LET role == IF content.role = "model" THEN "assistant" ELSE "user"
        blocks == TurnBlocks(content)
    IN IF blocks = << >> THEN msgs
       ELSE IF Len(msgs) > 0 /\ msgs[Len(msgs)].role = role
            THEN [msgs EXCEPT ![Len(msgs)].content = blocks \o @]
            ELSE Append(msgs, Message(role, blocks))

\* One iteration of the loop of toAnthropicMessages over contents
appendTurn(msgs, content) ==
    LET role == IF content.role = "model" THEN "assistant" ELSE "user"
        blocks == TurnBlocks(content)
    IN IF blocks = << >> THEN msgs
       ELSE IF Len(msgs) > 0 /\ msgs[Len(msgs)].role = role
            THEN [msgs EXCEPT ![Len(msgs)].content = @ \o blocks]
            ELSE Append(msgs, Message(role, blocks))

RECURSIVE toAnthropicMessages(_)
toAnthropicMessages(cs) ==
    IF cs = << >> THEN << >>
    ELSE appendTurn(toAnthropicMessages(SubSeq(cs, 1, Len(cs) - 1)), cs[Len(cs)])

\* Mutant of toAnthropicRequest: the downgraded system text always becomes a new
\* first message
toAnthropicRequest_AlwaysInsert(cs, system, noSystem) ==
    LET systemText == IF system # << >> THEN extractTextFromContent(system) ELSE << >>
        msgs == toAnthropicMessages(cs)
    IN IF systemText # << >>
       THEN IF ~noSystem
            THEN [system |-> systemText, messages |-> msgs]
            ELSE [system |-> << >>,
                  messages |-> <<Message("user", <<TextBlock(systemText)>>)>> \o msgs]
       ELSE [system |-> << >>, messages |-> msgs]

\* toAnthropicRequest: the system field and the messages
toAnthropicRequest(cs, system, noSystem) ==
    LET systemText == IF system # << >> THEN extractTextFromContent(system) ELSE << >>
        msgs == toAnthropicMessages(cs)
    IN IF systemText # << >>
       THEN IF ~noSystem
            THEN [system |-> systemText, messages |-> msgs]
            ELSE IF Len(msgs) > 0 /\ msgs[1].role = "user"
                 THEN [system |-> << >>,
                       messages |-> [msgs EXCEPT ![1].content = <<TextBlock(systemText)>> \o @]]
                 ELSE [system |-> << >>,
                       messages |-> <<Message("user", <<TextBlock(systemText)>>)>> \o msgs]
       ELSE [system |-> << >>, messages |-> msgs]

NoWireA == [input |-> << >>, instructions |-> << >>, reasoning |-> << >>]
NoWireB == [system |-> << >>, messages |-> << >>]

InitTranslate ==
    /\ contents = << >>
    /\ systemInstruction = << >>
    /\ noSystemRole = FALSE
    /\ thinkingConfig = NoThinking
    /\ wireA = NoWireA
    /\ wireB = NoWireB
    /\ tpc = "build"
    /\ StreamIdle
    /\ SanIdle
    /\ ToolIdle
    /\ ConcIdle
    /\ SessIdle
    /\ warnings = << >>

NumParts(cs) == Len(Concat([i \in 1..Len(cs) |-> cs[i].parts]))

\* The caller appends a turn to the request
AddTurn(role) ==
    /\ tpc = "build"
    /\ Len(contents) < MaxTurns
    /\ contents' = Append(contents, Content(role, << >>))
    /\ UNCHANGED <<systemInstruction, noSystemRole, thinkingConfig, wireA, wireB, tpc>>
    /\ UNCHANGED <<streamVars, sanVars, toolVars, concVars, sessVars, warnings>>

\* The caller appends a part to the last turn
AddPart(part) ==
    /\ tpc = "build"
    /\ Len(contents) > 0
    /\ NumParts(contents) < MaxParts
    /\ contents' = [contents EXCEPT ![Len(contents)].parts = Append(@, part)]
    /\ UNCHANGED <<systemInstruction, noSystemRole, thinkingConfig, wireA, wireB, tpc>>
    /\ UNCHANGED <<streamVars, sanVars, toolVars, concVars, sessVars, warnings>>

\* The request is translated for the Responses API
TranslateA(system, thinking) ==
    /\ tpc = "build"
    /\ systemInstruction' = system
    /\ thinkingConfig' = thinking
    /\ wireA' = toResponsesRequest(contents, system, thinking)
    /\ tpc' = "doneA"
    /\ UNCHANGED <<contents, noSystemRole, wireB>>
    /\ UNCHANGED <<streamVars, sanVars, toolVars, concVars, sessVars, warnings>>

\* The request is translated for the Messages API (the same request may have been
\* translated for the Responses API before)
TranslateB(system, noSystem) ==
    /\ tpc \in {"build", "doneA"}
    /\ tpc = "doneA" => system = systemInstruction
    /\ systemInstruction' = system
    /\ noSystemRole' = noSystem
    /\ wireB' = toAnthropicRequest(contents, system, noSystem)
    /\ tpc' = "doneB"
    /\ UNCHANGED <<contents, thinkingConfig, wireA>>
    /\ UNCHANGED <<streamVars, sanVars, toolVars, concVars, sessVars, warnings>>

NextTranslate ==
    \/ \E role \in Roles : AddTurn(role)
    \/ \E part \in RequestParts : AddPart(part)
    \/ \E system \in SystemInstructions : TranslateA(system, NoThinking)
    \/ \E system \in SystemInstructions, noSystem \in BOOLEAN : TranslateB(system, noSystem)

SpecTranslate == InitTranslate /\ [][NextTranslate]_vars

\* C4: the message list of the Messages-API translator never holds two adjacent
\* messages of the same role, whatever the turns, the system instruction and the
\* setting of native system-role support.
C4_RolesAlternate ==
    tpc = "doneB" =>
        \A i \in 1..(Len(wireB.messages) - 1) :
            wireB.messages[i].role # wireB.messages[i + 1].role

\* Two user turns around a model turn that translates to no blocks, and a system
\* instruction downgraded to a leading user message: all merged into one message
C4_Witness ==
    /\ tpc = "doneB"
    /\ noSystemRole
    /\ systemInstruction # << >>
    /\ Len(contents) = 3
    /\ contents[1].role = "user"
    /\ contents[2].role = "model"
    /\ contents[3].role = "user"
    /\ TurnBlocks(contents[1]) # << >>
    /\ TurnBlocks(contents[2]) = << >>
    /\ TurnBlocks(contents[3]) # << >>
    /\ Len(wireB.messages) = 1
    /\ Len(wireB.messages[1].content) = 3

HasThought(text) == ThoughtToken \in Range(text)

----------------------------------------------------------------------------
(* Schema sanitizer *)

MaxBranches == 2    \* branches of an anyOf list
MaxPasses == 2      \* applications of the sanitizer to one document

\* A schema node (map[string]any) by the keys the sanitizer reads or moves; a key
\* that is absent is << >>, a key that is present is <<value>>. The value of
\* anyOf is a list of nodes, that of properties the list of its property schemas
\* (in the order of the property names), that of items a node. JSON null is JNull.
JNull == "null"
SchemaKeys == {"const", "enum", "default", "type", "anyOf", "properties", "items", "required"}
EmptyNode == [k \in SchemaKeys |-> << >>]
TypeNode(t) == [EmptyNode EXCEPT !["type"] = <<t>>]
NullBranch == TypeNode("null")
ConstNode == [EmptyNode EXCEPT !["const"] = <<"x">>, !["default"] = <<JNull>>]
AnyOfNode(branches) == [EmptyNode EXCEPT !["anyOf"] = <<branches>>]
ObjectNode(props) ==
    [EmptyNode EXCEPT !["type"] = <<"object">>, !["properties"] = <<props>>,
                      !["required"] = << <<"p1">> >>]
ArrayNode(item) == [EmptyNode EXCEPT !["type"] = <<"array">>, !["items"] = <<item>>]

SeqsUpTo(S, n) == UNION { [1..k -> S] : k \in 1..n }

Leaves == { TypeNode("string"), NullBranch, ConstNode }
Nested(S) ==
    S \cup { AnyOfNode(bs) : bs \in SeqsUpTo(S, MaxBranches) }
      \cup { ObjectNode(<<n>>) : n \in S }
      \cup { ArrayNode(n) : n \in S }
Schemas == Nested(Nested(Leaves))

\* for k, v := range m { node[k] = v }
Inline(node, m) == [k \in SchemaKeys |-> IF m[k] # << >> THEN m[k] ELSE node[k]]

\* const -> enum, and the removal of default: null
ConstAndDefault(node) ==
    LET n1 == IF node["const"] # << >>
              THEN [node EXCEPT !["enum"] = << node["const"] >>, !["const"] = << >>]
              ELSE node
    IN IF n1["default"] = <<JNull>> THEN [n1 EXCEPT !["default"] = << >>] ELSE n1

\* Mutant of AnyOfRule: the single remaining branch is dropped with the list
AnyOfRule_NoInline(node) ==
    IF node["anyOf"] = << >> THEN node
    ELSE LET nonNull == SelectSeq(node["anyOf"][1], LAMBDA m : m["type"] # <<"null">>)
         IN IF Len(nonNull) = 1
            THEN [node EXCEPT !["anyOf"] = << >>]
            ELSE IF Len(nonNull) > 1
                 THEN [node EXCEPT !["anyOf"] = <<nonNull>>]
                 ELSE node

\* The anyOf rule
AnyOfRule(node) ==
    IF node["anyOf"] = << >> THEN node
    ELSE LET nonNull == SelectSeq(node["anyOf"][1], LAMBDA m : m["type"] # <<"null">>)
         IN IF Len(nonNull) = 1
            THEN Inline([node EXCEPT !["anyOf"] = << >>], nonNull[1])
            ELSE IF Len(nonNull) > 1
                 THEN [node EXCEPT !["anyOf"] = <<nonNull>>]
                 ELSE node

RECURSIVE sanitizeSchemaNode(_)
sanitizeSchemaNode(node) ==
    LET n == AnyOfRule(ConstAndDefault(node))
        p == IF n["properties"] # << >>
             THEN [n EXCEPT !["properties"] =
                     << [i \in 1..Len(n["properties"][1]) |->
                            sanitizeSchemaNode(n["properties"][1][i])] >>]
             ELSE n
    IN IF p["items"] # << >>
       THEN [p EXCEPT !["items"] = << sanitizeSchemaNode(p["items"][1]) >>]
       ELSE p

InitSanitize ==
    /\ schema \in Schemas
    /\ prevSchema = schema
    /\ napplied = 0
    /\ StreamIdle
    /\ TransIdle
    /\ ToolIdle
    /\ ConcIdle
    /\ SessIdle
    /\ warnings = << >>

\* One application of the sanitizer to the current document
Sanitize ==
    /\ napplied < MaxPasses
    /\ prevSchema' = schema
    /\ schema' = sanitizeSchemaNode(schema)
    /\ napplied' = napplied + 1
    /\ UNCHANGED <<streamVars, transVars, toolVars, concVars, sessVars, warnings>>

NextSanitize == Sanitize

SpecSanitize == InitSanitize /\ [][NextSanitize]_vars

\* C6: the sanitizer is idempotent: applied to its own output it changes nothing.
C6_SanitizeIdempotent ==
    napplied >= 2 => schema = prevSchema

\* The nodes sanitizeSchemaNode recurses into from a node: the values of its
\* properties and its items
Children(n) ==
    (IF n["properties"] # << >> THEN Range(n["properties"][1]) ELSE {})
        \cup (IF n["items"] # << >> THEN { n["items"][1] } ELSE {})

\* Every node of a document that is the root or is reached through properties
\* values and items
RECURSIVE SchemaNodes(_)
SchemaNodes(n) == {n} \cup UNION { SchemaNodes(c) : c \in Children(n) }

\* Every call of sanitizeSchemaNode made for a document, as the pair of the node
\* the call receives and the node it leaves: the recursion follows the properties
\* and items the node holds after its own rules have run
RECURSIVE Visited(_)
Visited(n) ==
    { <<n, sanitizeSchemaNode(n)>> }
        \cup UNION { Visited(c) : c \in Children(AnyOfRule(ConstAndDefault(n))) }

IsNullBranch(m) == m["type"] = <<"null">>

\* The branches of a node's anyOf that are not null branches
NonNullBranches(n) ==
    IF n["anyOf"] = << >> THEN << >>
    ELSE SelectSeq(n["anyOf"][1], LAMBDA m : ~IsNullBranch(m))

\* C11: after sanitization, no node that is the root or is reached through
\* properties values and items has an anyOf list holding a {type: "null"} branch,
\* also when every branch of the original anyOf was a null branch.
C11_NoNullBranchLeft ==
    napplied >= 1 =>
        \A n \in SchemaNodes(schema) :
            n["anyOf"] # << >> =>
                \A i \in 1..Len(n["anyOf"][1]) : ~IsNullBranch(n["anyOf"][1][i])

\* C13: after sanitization no node that is the root or is reached through
\* properties values and items has a const key, and every node that had const: v
\* when the sanitizer visited it has enum: [v].
C13_ConstBecomesEnum ==
    napplied = 1 =>
        /\ \A n \in SchemaNodes(schema) : n["const"] = << >>
        /\ \A p \in Visited(prevSchema) :
              p[1]["const"] # << >> => p[2]["enum"] = << p[1]["const"] >>

\* The keys whose values sanitizeSchemaNode goes on to sanitize in place
RecursedKeys == {"properties", "items"}

\* A call of the sanitizer whose node has an anyOf that keeps exactly one branch
\* once the null branches are dropped
OneBranchLeft(p) == Len(NonNullBranches(p[1])) = 1

----------------------------------------------------------------------------
(* Tool declarations and the Messages API response parser *)

MaxTools == 2       \* function declarations of a request
MaxBlocks == 2      \* content blocks of a Messages API response

\* A Go interface value (any): the nil interface, or a dynamic type with a value.
\* A nil pointer stored in an interface is not the nil interface.
NilIface == [dyn |-> "nil", val |-> << >>]
Iface(dyn, val) == [dyn |-> dyn, val |-> val]

ToolSchemaNodes == { TypeNode("string"), AnyOfNode(<< NullBranch, ConstNode >>) }

\* Values of FunctionDeclaration.ParametersJsonSchema (any): unset, a JSON object,
\* a value that marshals to a JSON array, a value json.Marshal rejects
JsonSchemaValues ==
    { NilIface, Iface("slice", << >>), Iface("chan", << >>) }
        \cup { Iface("map", <<n>>) : n \in ToolSchemaNodes }

\* Values of FunctionDeclaration.Parameters (*genai.Schema): nil (<< >>) or a schema
ParametersValues == { << >>, << TypeNode("string") >> }

FunctionDeclaration(name, jsonSchema, parameters) ==
    [name |-> name, ParametersJsonSchema |-> jsonSchema, Parameters |-> parameters]

FunctionDeclarations ==
    { FunctionDeclaration("f", j, p) : j \in JsonSchemaValues, p \in ParametersValues }

\* json.RawMessage: the bytes of a JSON document
RawNull == [kind |-> "null", node |-> << >>]
RawArray == [kind |-> "array", node |-> << >>]
RawObject(n) == [kind |-> "object", node |-> <<n>>]

\* json.Marshal of an interface value
Marshal(v) ==
    CASE v.dyn = "chan" -> [raw |-> RawNull, err |-> TRUE]
      [] v.dyn = "slice" -> [raw |-> RawArray, err |-> FALSE]
      [] v.dyn = "map" -> [raw |-> RawObject(v.val[1]), err |-> FALSE]
      [] v.dyn = "*genai.Schema" ->
            [raw |-> IF v.val = << >> THEN RawNull ELSE RawObject(v.val[1]), err |-> FALSE]
      [] OTHER -> [raw |-> RawNull, err |-> FALSE]

\* Mutant of sanitizeSchemaForAnthropic: a document that is no object is replaced
\* by null
sanitizeSchemaForAnthropic_DropsRaw(raw) ==
    IF raw.kind = "object"
    THEN [raw |-> RawObject(sanitizeSchemaNode(raw.node[1])), err |-> FALSE]
    ELSE IF raw.kind = "null" THEN [raw |-> RawNull, err |-> FALSE]
    ELSE [raw |-> RawNull, err |-> TRUE]

\* sanitizeSchemaForAnthropic: Unmarshal into map[string]any accepts an object and
\* null (the map stays nil and marshals back to null), and rejects anything else
sanitizeSchemaForAnthropic(raw) ==
    IF raw.kind = "object"
    THEN [raw |-> RawObject(sanitizeSchemaNode(raw.node[1])), err |-> FALSE]
    ELSE IF raw.kind = "null" THEN [raw |-> RawNull, err |-> FALSE]
    ELSE [raw |-> raw, err |-> TRUE]

\* schema := fd.ParametersJsonSchema; if schema == nil { schema = fd.Parameters }
DeclaredSchema(fd) ==
    IF fd.ParametersJsonSchema # NilIface THEN fd.ParametersJsonSchema
    ELSE Iface("*genai.Schema", fd.Parameters)

Tool(name, inputSchema) == [name |-> name, input_schema |-> inputSchema]
Warning(logger, what, subject) == [logger |-> logger, what |-> what, subject |-> subject]

\* The loop of convertTools over the function declarations still to convert:
\* (tools, error, warnings recorded); error "" is nil
RECURSIVE convertToolsFrom(_, _, _)
convertToolsFrom(fds, tools, warns) ==
    IF fds = << >> THEN [tools |-> tools, err |-> "", warnings |-> warns]
    ELSE LET fd == Head(fds)
             declared == DeclaredSchema(fd)
             m == Marshal(declared)
             s == sanitizeSchemaForAnthropic(m.raw)
         IN IF declared = NilIface
            THEN [tools |-> << >>, err |-> "parameters is nil", warnings |-> warns]
            ELSE IF m.err
                 THEN [tools |-> << >>, err |-> "marshal tool schema", warnings |-> warns]
                 ELSE convertToolsFrom(
                          Tail(fds),
                          Append(tools, Tool(fd.name, s.raw)),
                          IF s.err
                          THEN Append(warns, Warning("anthropic:convert", "sanitize", fd.name))
                          ELSE warns)

convertTools(fds) == convertToolsFrom(fds, << >>, << >>)

ResponsesTool(name, parameters) == [type |-> "function", name |-> name, parameters |-> parameters]

\* convertResponsesTools: no test of the schema after the fallback to Parameters
convertResponsesTools(fds) ==
    [i \in 1..Len(fds) |-> ResponsesTool(fds[i].name, DeclaredSchema(fds[i]))]

\* The request stage of generate and generateStream: toResponsesRequest (which
\* returns no error for tools), json.Marshal of the request, then doRequest
RequestStageA(fds) ==
    LET tools == convertResponsesTools(fds)
        marshalFails == \E i \in 1..Len(tools) : Marshal(tools[i].parameters).err
    IN [tools |-> tools,
        err |-> IF marshalFails THEN "marshal request" ELSE "",
        sent |-> ~marshalFails]

\* A content block of a Messages API response
ResponseBlock(type, text, thinking, id, name, input) ==
    [type |-> type, text |-> text, thinking |-> thinking, id |-> id, name |-> name,
     input |-> input]

\* Text (also empty), thinking, and tool_use with no input, a JSON object and a
\* truncated document as input
ResponseBlocks ==
    { ResponseBlock("text", <<"a">>, << >>, "", "", << >>),
      ResponseBlock("text", << >>, << >>, "", "", << >>),
      ResponseBlock("thinking", << >>, <<"t">>, "", "", << >>),
      ResponseBlock("tool_use", << >>, << >>, "c1", "f", << >>),
      ResponseBlock("tool_use", << >>, << >>, "c1", "f", FullArgs),
      ResponseBlock("tool_use", << >>, << >>, "c1", "f", <<ArgOpen>>) }

StopReasons == {"end_turn", "stop_sequence", "max_tokens", "tool_use", "refusal"}

\* Usage as the Messages API reports it
MessagesUsages == { [input_tokens |-> 1, output_tokens |-> 2],
                    [input_tokens |-> 0, output_tokens |-> 0] }

MessagesResponse(content, usage, stop_reason) ==
    [content |-> content, usage |-> usage, stop_reason |-> stop_reason]

\* Every content of up to MaxBlocks blocks, and every usage with every stop reason
MessagesResponses ==
    { MessagesResponse(c, [input_tokens |-> 1, output_tokens |-> 2], "end_turn") :
        c \in SeqsUpTo(ResponseBlocks, MaxBlocks) }
        \cup { MessagesResponse(<< >>, u, r) : u \in MessagesUsages, r \in StopReasons }

\* json.Unmarshal(block.Input, &args) into a fresh map; a failure leaves it empty
UnmarshalInput(input) ==
    IF input = FullArgs THEN [args |-> { <<"a", 1>> }, err |-> FALSE]
    ELSE [args |-> {}, err |-> TRUE]

\* The parts appended for one block
BlockParts(block) ==
    CASE block.type = "text" ->
            IF block.text # << >> THEN << TextPart(block.text) >> ELSE << >>
      [] block.type = "thinking" ->
            IF block.thinking # << >> THEN << ThoughtPart(block.thinking) >> ELSE << >>
      [] block.type = "tool_use" ->
            << FunctionCallPart(block.id, block.name,
                                IF Len(block.input) > 0
                                THEN UnmarshalInput(block.input).args ELSE {}) >>
      [] OTHER -> << >>

\* The warnings recorded for one block
BlockWarnings(block) ==
    IF block.type = "tool_use" /\ Len(block.input) > 0 /\ UnmarshalInput(block.input).err
    THEN << Warning("anthropic:convert", "tool_use input", block.id) >>
    ELSE << >>

convertUsage(u) ==
    << [promptTokens |-> u.input_tokens,
        completionTokens |-> u.output_tokens,
        totalTokens |-> u.input_tokens + u.output_tokens] >>

convertStopReason(reason) ==
    CASE reason \in {"end_turn", "stop_sequence"} -> "STOP"
      [] reason = "max_tokens" -> "MAX_TOKENS"
      [] reason = "tool_use" -> "STOP"
      [] OTHER -> "FINISH_REASON_UNSPECIFIED"

\* convertAnthropicResponse: the response (it returns no error) and the warnings
\* it records
convertAnthropicResponse(resp) ==
    [resp |-> LLMResponse(Concat([i \in 1..Len(resp.content) |-> BlockParts(resp.content[i])]),
                          convertUsage(resp.usage), convertStopReason(resp.stop_reason),
                          FALSE, TRUE),
     warnings |-> Concat([i \in 1..Len(resp.content) |-> BlockWarnings(resp.content[i])])]

InitTools ==
    /\ decls = << >>
    /\ toolsA = << >>
    /\ toolsB = << >>
    /\ parsedB = << >>
    /\ kpc = "build"
    /\ warnings = << >>
    /\ StreamIdle
    /\ TransIdle
    /\ SanIdle
    /\ ConcIdle
    /\ SessIdle

\* The caller declares one more function
Declare(fd) ==
    /\ kpc = "build"
    /\ Len(decls) < MaxTools
    /\ decls' = Append(decls, fd)
    /\ UNCHANGED <<toolsA, toolsB, parsedB, kpc, warnings>>
    /\ UNCHANGED <<streamVars, transVars, sanVars, concVars, sessVars>>

\* The Responses call up to doRequest, for a request with these tools
RequestA ==
    /\ kpc \in {"build", "run"}
    /\ toolsA = << >>
    /\ toolsA' = << RequestStageA(decls) >>
    /\ kpc' = "run"
    /\ UNCHANGED <<decls, toolsB, parsedB, warnings>>
    /\ UNCHANGED <<streamVars, transVars, sanVars, concVars, sessVars>>

\* convertTools, as toAnthropicRequest calls it for a request with these tools
RequestB ==
    /\ kpc \in {"build", "run"}
    /\ toolsB = << >>
    /\ toolsB' = << [tools |-> convertTools(decls).tools, err |-> convertTools(decls).err] >>
    /\ warnings' = warnings \o convertTools(decls).warnings
    /\ kpc' = "run"
    /\ UNCHANGED <<decls, toolsA, parsedB>>
    /\ UNCHANGED <<streamVars, transVars, sanVars, concVars, sessVars>>

\* convertAnthropicResponse on the reply to a translated request
ParseB(resp) ==
    /\ toolsB # << >>
    /\ toolsB[1].err = ""
    /\ parsedB = << >>
    /\ parsedB' = << [in |-> resp, out |-> convertAnthropicResponse(resp).resp] >>
    /\ warnings' = warnings \o convertAnthropicResponse(resp).warnings
    /\ UNCHANGED <<decls, toolsA, toolsB, kpc>>
    /\ UNCHANGED <<streamVars, transVars, sanVars, concVars, sessVars>>

NextTools ==
    \/ \E fd \in FunctionDeclarations : Declare(fd)
    \/ RequestA
    \/ RequestB
    \/ \E resp \in MessagesResponses : ParseB(resp)

SpecTools == InitTools /\ [][NextTools]_vars

\* The sanitizer cannot process the declared schema: it marshals to a document
\* that is no JSON object
SanitizerFails(fd) == fd.ParametersJsonSchema.dyn = "slice"

\* json.Marshal rejects the declared schema
MarshalFails(fd) == fd.ParametersJsonSchema.dyn = "chan"

\* The declaration has no parameter schema in either field
NoParameterSchema(fd) == fd.ParametersJsonSchema = NilIface /\ fd.Parameters = << >>

\* C14: a sanitization failure never fails tool conversion for Provider B:
\* convertTools fails only on a schema that cannot be marshalled, and a tool whose
\* schema the sanitizer cannot process is returned with its original bytes
\* attached and a warning recorded for it.
C14_SanitizeFailureIsNotFatal ==
    toolsB # << >> =>
        LET r == toolsB[1]
            fatal == \E i \in 1..Len(decls) : MarshalFails(decls[i])
        IN /\ r.err # "" => fatal
           /\ ~fatal =>
                 /\ Len(r.tools) = Len(decls)
                 /\ \A i \in 1..Len(decls) :
                       SanitizerFails(decls[i]) =>
                           /\ r.tools[i].name = decls[i].name
                           /\ r.tools[i].input_schema = RawArray
                           /\ \E j \in 1..Len(warnings) :
                                 /\ warnings[j].what = "sanitize"
                                 /\ warnings[j].subject = decls[i].name

\* Two tools converted, the first with a schema the sanitizer rejects, the second
\* with one it rewrites
C14_Witness ==
    /\ toolsB # << >>
    /\ Len(decls) = 2
    /\ SanitizerFails(decls[1])
    /\ decls[2].ParametersJsonSchema = Iface("map", << AnyOfNode(<< NullBranch, ConstNode >>) >>)
    /\ toolsB[1].err = ""
    /\ Len(toolsB[1].tools) = 2
    /\ Len(warnings) = 1

\* C17: for either provider, a request with a tool declaration that has no
\* parameter schema fails with a translation error and nothing is sent.
C17_MissingSchemaAborts ==
    (\E i \in 1..Len(decls) : NoParameterSchema(decls[i])) =>
        /\ toolsA # << >> => (toolsA[1].err # "" /\ ~toolsA[1].sent)
        /\ toolsB # << >> => toolsB[1].err # ""

\* The blocks of a parsed response whose tool-call input failed to decode
UndecodedInputs(resp) ==
    { i \in 1..Len(resp.content) :
        /\ resp.content[i].type = "tool_use"
        /\ Len(resp.content[i].input) > 0
        /\ resp.content[i].input # FullArgs }

\* C15: every recovered error records at least one warning: a skipped malformed
\* stream event, a sanitization failure, and a tool-call argument string that
\* fails to decode.
C15_RecoveredErrorsAreWarned ==
    /\ corrupted > 0 => Len(warnings) > 0
    /\ (toolsB # << >> /\ toolsB[1].err = "" /\ \E i \in 1..Len(decls) : SanitizerFails(decls[i]))
          => \E j \in 1..Len(warnings) : warnings[j].what = "sanitize"
    /\ (parsedB # << >> /\ UndecodedInputs(parsedB[1].in) # {})
          => \E j \in 1..Len(warnings) : warnings[j].what = "tool_use input"

\* total = prompt + completion in a usage record, when there is one
UsageAddsUp(usage) ==
    usage # << >> => usage[1].totalTokens = usage[1].promptTokens + usage[1].completionTokens

\* C16: in every canonical response that carries usage, from the Responses parser,
\* the stream aggregator or the Messages parser, totalTokens equals promptTokens
\* plus completionTokens.
C16_TotalIsPromptPlusCompletion ==
    /\ \A i \in 1..Len(delivered) :
          delivered[i].resp # << >> => UsageAddsUp(delivered[i].resp[1].usage)
    /\ parsedB # << >> => UsageAddsUp(parsedB[1].out.usage)

----------------------------------------------------------------------------
(* Placement of the system instruction and order of the wire items *)

\* C18: a non-empty system instruction goes to the system field when the provider
\* has a native system role, the messages being the translation of the turns
\* alone; otherwise the system field stays empty and the system text is the first
\* block of the first message, of role user: prepended to the first message when
\* that is a user message already, a new first message otherwise, every other
\* message and block unchanged and in order.
C18_SystemInstructionPlacement ==
    tpc = "doneB" =>
        LET text == extractTextFromContent(systemInstruction)
            msgs == toAnthropicMessages(contents)
            out == wireB.messages
        IN text # << >> =>
              IF ~noSystemRole
              THEN wireB.system = text /\ out = msgs
              ELSE /\ wireB.system = << >>
                   /\ Len(out) >= 1
                   /\ out[1].role = "user"
                   /\ out[1].content[1] = TextBlock(text)
                   /\ IF Len(msgs) > 0 /\ msgs[1].role = "user"
                      THEN /\ Len(out) = Len(msgs)
                           /\ Tail(out[1].content) = msgs[1].content
                           /\ \A i \in 2..Len(msgs) : out[i] = msgs[i]
                      ELSE /\ Len(out) = Len(msgs) + 1
                           /\ Tail(out[1].content) = << >>
                           /\ \A i \in 1..Len(msgs) : out[i + 1] = msgs[i]

\* Without a native system role, the system text has been prepended to the first
\* message of a request that opens with a user turn and goes on with a model turn
C18_Witness ==
    /\ tpc = "doneB"
    /\ noSystemRole
    /\ extractTextFromContent(systemInstruction) # << >>
    /\ Len(contents) = 2
    /\ contents[1].role = "user"
    /\ contents[2].role = "model"
    /\ Len(wireB.messages) = 2
    /\ Len(wireB.messages[1].content) = 2
    /\ wireB.messages[2].role = "assistant"

MaxTurnParts == 3   \* parts of the turn whose item order is examined

\* Every turn of up to MaxTurnParts parts, in any interleaving, under any role
Turns ==
    { Content(role, parts) :
        role \in Roles, parts \in {<< >>} \cup SeqsUpTo(RequestParts, MaxTurnParts) }

\* The turns that may follow it in the request
FollowingTurns ==
    { Content("model", << FunctionCallPart("c2", "g", {}), TextPart(<<"y">>) >>),
      Content("user", << TextPart(<<"y">>), FunctionResponsePart("c2", <<"{}">>) >>) }

\* A request of one turn, or of that turn and one that follows it
InitTurns ==
    /\ contents \in { <<t>> : t \in Turns } \cup { <<t, u>> : t \in Turns, u \in FollowingTurns }
    /\ systemInstruction = << >>
    /\ noSystemRole = FALSE
    /\ thinkingConfig = NoThinking
    /\ wireA = NoWireA
    /\ wireB = NoWireB
    /\ tpc = "build"
    /\ StreamIdle
    /\ SanIdle
    /\ ToolIdle
    /\ ConcIdle
    /\ SessIdle
    /\ warnings = << >>

NextTurns ==
    \E system \in SystemInstructions, thinking \in ThinkingConfigs : TranslateA(system, thinking)

SpecTurns == InitTurns /\ [][NextTurns]_vars

\* The parts of a turn that are function responses, function calls (and no
\* function response), and non-thought text (and no function response)
ResponseParts(turn) == SelectSeq(turn.parts, LAMBDA p : p.fr # << >>)
CallParts(turn) == SelectSeq(turn.parts, LAMBDA p : p.fr = << >> /\ p.fc # << >>)
SpokenParts(turn) ==
    SelectSeq(turn.parts, LAMBDA p : p.fr = << >> /\ p.text # << >> /\ ~p.thought)

\* The wire items a turn is to give: its function_call_output items in part order,
\* then one message with the concatenated text if there is any, then its
\* function_call items in part order
TurnItems(turn) ==
    [i \in 1..Len(ResponseParts(turn)) |->
        InputItem("function_call_output", "", << >>, ResponseParts(turn)[i].fr[1].id,
                  ResponseParts(turn)[i].fr[1].response, "", "", << >>)]
    \o (IF SpokenParts(turn) # << >>
        THEN << InputItem("", convertRoleForResponses(turn.role),
                          Concat([i \in 1..Len(SpokenParts(turn)) |-> SpokenParts(turn)[i].text]),
                          "", << >>, "", "", << >>) >>
        ELSE << >>)
    \o [i \in 1..Len(CallParts(turn)) |->
          InputItem("function_call", "", << >>, CallParts(turn)[i].fc[1].id, << >>,
                    CallParts(turn)[i].fc[1].id, CallParts(turn)[i].fc[1].name,
                    MarshalArgs(CallParts(turn)[i].fc[1].args))]

\* C19: the wire items of every turn translated for Provider A are its
\* function_call_output items (in part order), then at most one message item with
\* the concatenation of its non-thought text, then its function_call items (in
\* part order); the items of different turns follow the order of the turns.
C19_ItemOrderPerTurn ==
    tpc = "doneA" =>
        wireA.input = Concat([i \in 1..Len(contents) |-> TurnItems(contents[i])])

\* A turn holding a function call, then text, then a function response, followed
\* by another turn, has been translated: output item, message, call item, and
\* then the items of the next turn
C19_Witness ==
    /\ tpc = "doneA"
    /\ Len(contents) = 2
    /\ Len(contents[1].parts) = 3
    /\ contents[1].parts[1].fc # << >>
    /\ contents[1].parts[2] = TextPart(<<"x">>)
    /\ contents[1].parts[3].fr # << >>
    /\ Len(wireA.input) >= 5
    /\ wireA.input[1].type = "function_call_output"
    /\ wireA.input[2].content = <<"x">>
    /\ wireA.input[3].type = "function_call"

----------------------------------------------------------------------------
(* The empty-output error of the Responses parser *)

ErrNoChoicesInResponse == "ErrNoChoicesInResponse"

\* C20: parsing a Responses reply whose output list is empty fails with the
\* empty-output error and gives no response; a reply with at least one output item
\* never fails with that error.
C20_EmptyOutputError ==
    [][\A status \in StatusCodes, body \in Bodies :
          (generate(FALSE, status, body) /\ ~IsErrorStatus(status) /\ body.decodeOk) =>
              /\ Len(delivered') = 1
              /\ IF Len(body.resp.output) = 0
                 THEN /\ delivered'[1].resp = << >>
                      /\ Len(delivered'[1].err) = 1
                      /\ delivered'[1].err[1].kind = ErrNoChoicesInResponse
                 ELSE /\ delivered'[1].resp # << >>
                      /\ delivered'[1].err = << >>]_vars

\* A non-streaming call has failed with the empty-output error on a 2xx reply
C20_Witness ==
    /\ mode = "generate"
    /\ pc = "failed"
    /\ httpStatus \in 200..299
    /\ Len(delivered) = 1
    /\ delivered[1].resp = << >>
    /\ delivered[1].err # << >>
    /\ delivered[1].err[1].kind = ErrNoChoicesInResponse

----------------------------------------------------------------------------
(* Reasoning effort *)

\* C21 as stated: the reasoning effort of the wire request is "low" for the level
\* low, "high" for the level high and "medium" for every other level, also when
\* the request sets no level at all.
C21_Original ==
    tpc = "doneA" =>
        LET level == IF thinkingConfig = << >> THEN ThinkingLevelUnspecified
                     ELSE thinkingConfig[1].ThinkingLevel
        IN /\ wireA.reasoning # << >>
           /\ wireA.reasoning[1].effort =
                 CASE level = "LOW" -> "low" [] level = "HIGH" -> "high" [] OTHER -> "medium"

\* C21, amended: when the request carries a thinking configuration, the reasoning
\* effort of the wire request is "low" for the level low, "high" for the level
\* high and "medium" for every other level, the unspecified one included; when it
\* carries none, the wire request has no reasoning field.
C21_ReasoningEffort ==
    tpc = "doneA" =>
        IF thinkingConfig = << >>
        THEN wireA.reasoning = << >>
        ELSE /\ wireA.reasoning # << >>
             /\ thinkingConfig[1].ThinkingLevel = "LOW" => wireA.reasoning[1].effort = "low"
             /\ thinkingConfig[1].ThinkingLevel = "HIGH" => wireA.reasoning[1].effort = "high"
             /\ thinkingConfig[1].ThinkingLevel \notin {"LOW", "HIGH"} =>
                   wireA.reasoning[1].effort = "medium"

\* A request whose thinking configuration leaves the level unspecified has been
\* translated with the effort "medium"
C21_Witness ==
    /\ tpc = "doneA"
    /\ thinkingConfig = << [ThinkingLevel |-> ThinkingLevelUnspecified] >>
    /\ wireA.reasoning = << [effort |-> "medium"] >>

----------------------------------------------------------------------------
(* Round trip of a function call through the Responses translator *)

\* The response a finished call delivered last (<< >> when it ended in an error)
LastResponse ==
    IF delivered = << >> THEN << >> ELSE delivered[Len(delivered)].resp

\* The function calls of that response
ReturnedCalls ==
    IF LastResponse = << >> THEN << >> ELSE FunctionCallParts(LastResponse[1])

\* The caller answers the function calls of a finished call: the next request holds
\* the model turn with the calls and a user turn with one function response per
\* call, each under the id of its call
SendBack ==
    /\ pc = "done"
    /\ tpc = "idle"
    /\ ReturnedCalls # << >>
    /\ contents' = << Content("model", ReturnedCalls),
                      Content("user", [i \in 1..Len(ReturnedCalls) |->
                                          FunctionResponsePart(ReturnedCalls[i].fc[1].id,
                                                               <<"{\"ok\":true}">>)]) >>
    /\ tpc' = "build"
    /\ UNCHANGED <<systemInstruction, noSystemRole, thinkingConfig, wireA, wireB>>
    /\ UNCHANGED <<streamVars, sanVars, toolVars, concVars, sessVars, warnings>>

NextRoundTrip ==
    \/ \E netErr \in BOOLEAN, status \in StatusCodes, body \in Bodies :
          generate(netErr, status, body)
    \/ \E netErr \in BOOLEAN, status \in StatusCodes, body \in Bodies :
          generateStream(netErr, status, body)
    \/ \E t \in EventTypes : ScanEventLine(t)
    \/ ScanOtherLine
    \/ \E data \in DataFor(currentEventType), cont \in BOOLEAN : ScanDataLine(data, cont)
    \/ \E order \in Perms(DOMAIN toolCallsMap), end \in ScanEnds : ScanEnd(order, end)
    \/ SendBack
    \/ TranslateA(<< >>, NoThinking)

SpecRoundTrip == Init /\ [][NextRoundTrip]_vars

\* The call ids the provider gave: of the function_call items of a reply body, and
\* of the last added or done event of every function-call item of a stream
BodyCallIds(body) ==
    LET calls == SelectSeq(body.resp.output, LAMBDA item : item.type = "function_call")
    IN [i \in 1..Len(calls) |-> calls[i].call_id]

StreamCallIds ==
    { e.data.item.call_id : e \in
        { itemEvents[i] : i \in
            { i \in 1..Len(itemEvents) :
                /\ itemEvents[i].type \in {EvOutputItemAdded, EvOutputItemDone}
                /\ itemEvents[i].data.item.type = "function_call"
                /\ \A j \in (i + 1)..Len(itemEvents) :
                      ~(/\ itemEvents[j].type \in {EvOutputItemAdded, EvOutputItemDone}
                        /\ itemEvents[j].data.item.id = itemEvents[i].data.item.id) } } }

WireItemsOfType(type) == SelectSeq(wireA.input, LAMBDA item : item.type = type)

\* C22: when the function calls parsed from a reply (non-streaming or streamed)
\* are sent back in the next request with their function responses, every call id
\* the provider gave is the call_id of one function_call item and of one
\* function_call_output item of that request, and no other call_id is sent.
C22_CallIdRoundTrip ==
    tpc = "doneA" =>
        LET ids == [i \in 1..Len(ReturnedCalls) |-> ReturnedCalls[i].fc[1].id]
            calls == WireItemsOfType("function_call")
            outputs == WireItemsOfType("function_call_output")
        IN /\ [i \in 1..Len(calls) |-> calls[i].call_id] = ids
           /\ [i \in 1..Len(outputs) |-> outputs[i].call_id] = ids
           /\ mode = "generate" => \E body \in Bodies : BodyCallIds(body) = ids
           /\ mode = "stream" => Range(ids) = StreamCallIds

\* A streamed reply with the two calls c1 and c2 has been answered and translated
C22_Witness ==
    /\ tpc = "doneA"
    /\ mode = "stream"
    /\ StreamCallIds = {"c1", "c2"}
    /\ Len(WireItemsOfType("function_call")) = 2
    /\ Len(WireItemsOfType("function_call_output")) = 2

----------------------------------------------------------------------------
(* Two streaming calls in flight on one ResponsesModel *)

MaxCallLines == 2   \* data lines each of the concurrent calls dispatches

ConcurrentCalls == {1, 2}

\* The locals processResponsesStream declares before its loop
Aggregation(eventType, text, m, usage) ==
    [currentEventType |-> eventType, textContent |-> text, toolCallsMap |-> m,
     usageMetadata |-> usage]

FreshAggregation == Aggregation("", << >>, EmptyMap, << >>)

\* Mutant of AggregationOf: the aggregation state is held by the ResponsesModel
AggregationOf_OnModel(c) == 0

\* The place that holds the aggregation state of call c: the frame of its own
\* invocation of processResponsesStream
AggregationOf(c) == c

EventLine(t) == [kind |-> "event", type |-> t, data |-> Malformed]
DataLine(data) == [kind |-> "data", type |-> "", data |-> data]

\* One iteration of the scan loop on this line: the aggregation state after it and
\* the responses it yields
ScanLine(a, line) ==
    IF line.kind = "event"
    THEN [agg |-> [a EXCEPT !.currentEventType = line.type], yields |-> << >>]
    ELSE LET t == a.currentEventType
             r == IF t = EvTextDelta THEN handleTextDelta(line.data, a.textContent)
                  ELSE [textContent |-> a.textContent, yields |-> << >>]
         IN [agg |-> Aggregation(
                        "",
                        r.textContent,
                        CASE t = EvFuncArgsDelta -> handleFuncArgsDelta(line.data, a.toolCallsMap)
                          [] t = EvOutputItemAdded -> handleOutputItemAdded(line.data, a.toolCallsMap)
                          [] t = EvOutputItemDone -> handleOutputItemDone(line.data, a.toolCallsMap)
                          [] OTHER -> a.toolCallsMap,
                        IF t = EvCompleted THEN handleCompleted(line.data, a.usageMetadata)
                        ELSE a.usageMetadata),
             yields |-> r.yields]

\* The scan loop of a call that runs alone, over these lines
RECURSIVE ScanLines(_)
ScanLines(lines) ==
    IF lines = << >> THEN [agg |-> FreshAggregation, delivered |-> << >>]
    ELSE LET before == ScanLines(SubSeq(lines, 1, Len(lines) - 1))
             step == ScanLine(before.agg, lines[Len(lines)])
         IN [agg |-> step.agg, delivered |-> before.delivered \o step.yields]

\* Everything a call that runs alone on these lines delivers, its final loop
\* visiting the builders in this order
DeliveredAlone(lines, order) ==
    LET end == ScanLines(lines)
    IN end.delivered \o
       << YieldResp(FinalResponse(end.agg.textContent, end.agg.toolCallsMap, order,
                                  end.agg.usageMetadata)) >>

DataLines(lines) == SelectSeq(lines, LAMBDA line : line.kind = "data")

\* The data lines of the streams of SpecConcurrent, by the event type they follow:
\* one text delta, the call "i1" announced and filled by a delta, the call "i2"
\* arriving whole in its done event, one completion with usage
ConcurrentDataFor(t) ==
    CASE t = EvTextDelta -> { TextDeltaData(<<"a">>) }
      [] t = EvFuncArgsDelta -> { FuncArgsDeltaData("i1", FullArgs) }
      [] t = EvOutputItemAdded ->
            { ItemData(FunctionCallItem("i1", [call_id |-> "c1", name |-> "f"], << >>)) }
      [] t = EvOutputItemDone ->
            { ItemData(FunctionCallItem("i2", [call_id |-> "c2", name |-> "g"], FullArgs)) }
      [] t = EvCompleted ->
            { CompletedData(<<[input_tokens |-> 1, output_tokens |-> 2, total_tokens |-> 3]>>) }
      [] OTHER -> { TextDeltaData(<<"a">>) }

InitConcurrent ==
    /\ agg = << >>
    /\ runs = [c \in ConcurrentCalls |->
                 [pc |-> "start", lines |-> << >>, delivered |-> << >>, order |-> << >>]]
    /\ StreamIdle
    /\ TransIdle
    /\ SanIdle
    /\ ToolIdle
    /\ SessIdle
    /\ warnings = << >>

\* generateStream of call c reaches processResponsesStream
StartStream(c) ==
    /\ runs[c].pc = "start"
    /\ agg' = MapPut(agg, AggregationOf(c), FreshAggregation)
    /\ runs' = [runs EXCEPT ![c].pc = "scan"]
    /\ UNCHANGED <<streamVars, transVars, sanVars, toolVars, sessVars, warnings>>

\* One iteration of the scan loop of call c
CallScanLine(c, line) ==
    /\ runs[c].pc = "scan"
    /\ Len(DataLines(runs[c].lines)) < MaxCallLines
    /\ line.kind = "event" =>
          IF runs[c].lines = << >> THEN TRUE
          ELSE runs[c].lines[Len(runs[c].lines)].kind = "data"
    /\ LET step == ScanLine(agg[AggregationOf(c)], line)
       IN /\ agg' = [agg EXCEPT ![AggregationOf(c)] = step.agg]
          /\ runs' = [runs EXCEPT ![c].lines = Append(@, line),
                                  ![c].delivered = @ \o step.yields]
    /\ UNCHANGED <<streamVars, transVars, sanVars, toolVars, sessVars, warnings>>

\* The scanner of call c is exhausted: the final response is assembled and yielded
CallScanEnd(c, order) ==
    /\ runs[c].pc = "scan"
    /\ LET a == agg[AggregationOf(c)]
       IN runs' = [runs EXCEPT ![c].pc = "done",
                               ![c].order = order,
                               ![c].delivered =
                                   Append(@, YieldResp(FinalResponse(a.textContent,
                                                                     a.toolCallsMap, order,
                                                                     a.usageMetadata)))]
    /\ UNCHANGED agg
    /\ UNCHANGED <<streamVars, transVars, sanVars, toolVars, sessVars, warnings>>

NextConcurrent ==
    \/ \E c \in ConcurrentCalls : StartStream(c)
    \/ \E c \in ConcurrentCalls, t \in KnownEventTypes : CallScanLine(c, EventLine(t))
    \/ \E c \in ConcurrentCalls :
          /\ runs[c].pc = "scan"
          /\ \E data \in ConcurrentDataFor(agg[AggregationOf(c)].currentEventType) :
                CallScanLine(c, DataLine(data))
    \/ \E c \in ConcurrentCalls :
          /\ runs[c].pc = "scan"
          /\ \E order \in Perms(DOMAIN agg[AggregationOf(c)].toolCallsMap) :
                CallScanEnd(c, order)

SpecConcurrent == InitConcurrent /\ [][NextConcurrent]_vars

\* C23: under every interleaving of two streaming calls on one ResponsesModel,
\* each call has delivered, at every point of its scan and at its end, exactly what
\* a call running alone delivers on the lines it has scanned.
C23_CallsDoNotInterfere ==
    \A c \in ConcurrentCalls :
        /\ runs[c].pc = "scan" => runs[c].delivered = ScanLines(runs[c].lines).delivered
        /\ runs[c].pc = "done" =>
              /\ Range(runs[c].order) = DOMAIN ScanLines(runs[c].lines).agg.toolCallsMap
              /\ runs[c].delivered = DeliveredAlone(runs[c].lines, runs[c].order)

\* Both calls are in their scan loops at once, the first with aggregated text and
\* an event type pending, the second with a function call under construction
C23_Witness ==
    /\ \A c \in ConcurrentCalls : runs[c].pc = "scan"
    /\ agg[AggregationOf(1)].textContent # << >>
    /\ agg[AggregationOf(1)].currentEventType = EvCompleted
    /\ DOMAIN agg[AggregationOf(2)].toolCallsMap # {}
    /\ agg[AggregationOf(2)].textContent = << >>

----------------------------------------------------------------------------
(* The session store: SessionService *)

MaxStoreCalls == 3   \* calls the goroutines make on the store, in all

Goroutines == {1, 2}
SessionKeys == {"600000"}
StockNames == {"n1", "n2"}

StockSession(id, name, messages, position) ==
    [id |-> id, name |-> name, messages |-> messages, position |-> position]
ZeroSession == StockSession(0, "", << >>, << >>)

\* A chat message: ID is zero until the store assigns it
ChatMessage(id, content) == [id |-> id, content |-> content]

\* Content of a session file: the JSON of a session, or bytes that do not parse
FileOf(session) == [ok |-> TRUE, session |-> session]
Truncated == [ok |-> FALSE, session |-> ZeroSession]

\* A session file left by an earlier run of the program
StoredSession == StockSession(100, "n1", <<ChatMessage(101, <<0, 0, 1>>)>>, << >>)

\* loadSession: ReadFile, then Unmarshal
loadSession(fs, stockCode) ==
    IF fs[stockCode] = << >> \/ ~fs[stockCode][1].ok
    THEN [err |-> TRUE, session |-> ZeroSession]
    ELSE [err |-> FALSE, session |-> fs[stockCode][1].session]

\* What os.WriteFile can leave behind
WriteOutcomes == {"written", "untouched", "truncated"}

\* saveSession: the file after the write, and whether an error is returned
saveSession(fs, session, stockCode, outcome) ==
    [files |-> [fs EXCEPT ![stockCode] =
                   CASE outcome = "written" -> <<FileOf(session)>>
                     [] outcome = "truncated" -> <<Truncated>>
                     [] OTHER -> @],
     err |-> outcome # "written"]

\* Mutant of LockFree: Lock never waits
LockFree_NoExclusion(holder) == TRUE

\* ss.mu.Lock() returns only when no goroutine holds the lock
LockFree(holder) == holder = 0

Reads == {"GetSession", "GetMessages"}
Writes == {"AddMessage", "AddMessages", "ClearMessages", "UpdatePosition"}
StoreOps == {"GetOrCreateSession"} \cup Reads \cup Writes

Result(err, id, name, messages) ==
    [err |-> err, id |-> id, name |-> name, messages |-> messages]
NoResult == Result(FALSE, 0, "", << >>)

Goroutine(gpc, op, key, name, msgs, read, result, expect, calls) ==
    [pc |-> gpc, op |-> op, key |-> key, name |-> name, msgs |-> msgs, read |-> read,
     result |-> result, expect |-> expect, calls |-> calls]

Contents(messages) == [i \in 1..Len(messages) |-> messages[i].content]

\* The messages a call appends: one for AddMessage, two for AddMessages
Appended(op, p, n) ==
    CASE op = "AddMessage" -> << ChatMessage(0, <<p, n, 1>>) >>
      [] op = "AddMessages" -> << ChatMessage(0, <<p, n, 1>>), ChatMessage(0, <<p, n, 2>>) >>
      [] OTHER -> << >>

\* The identifiers uuid.New gives to these messages
WithIds(msgs, issued) == [i \in 1..Len(msgs) |-> ChatMessage(issued + i, msgs[i].content)]

\* The message list after one call executed alone on this list
SequentialMessages(op, msgs, list) ==
    CASE op \in {"AddMessage", "AddMessages"} -> list \o Contents(msgs)
      [] op = "ClearMessages" -> << >>
      [] OTHER -> list

InitSessions ==
    /\ sessions = << >>
    /\ files \in [SessionKeys -> { << >>, <<FileOf(StoredSession)>> }]
    /\ mu = 0
    /\ procs = [p \in Goroutines |->
                  Goroutine("idle", "none", "", "", << >>, << >>, NoResult, << >>, 0)]
    /\ sequential = [k \in SessionKeys |-> << >>]
    /\ nextId = 0
    /\ StreamIdle
    /\ TransIdle
    /\ SanIdle
    /\ ToolIdle
    /\ ConcIdle
    /\ warnings = << >>

OtherThanSessions == <<streamVars, transVars, sanVars, toolVars, concVars, warnings>>

CallsMade == procs[1].calls + procs[2].calls

\* A goroutine calls a method of the store
Call(p, op, key, name) ==
    /\ procs[p].pc = "idle"
    /\ CallsMade < MaxStoreCalls
    /\ procs' = [procs EXCEPT ![p] =
                   Goroutine("lock", op, key, name, Appended(op, p, procs[p].calls + 1),
                             << >>, NoResult, << >>, procs[p].calls + 1)]
    /\ UNCHANGED <<sessions, files, mu, sequential, nextId>>
    /\ UNCHANGED OtherThanSessions

\* ss.mu.Lock()
Lock(p) ==
    /\ procs[p].pc = "lock"
    /\ LockFree(mu)
    /\ mu' = p
    /\ procs' = [procs EXCEPT ![p].pc = "find"]
    /\ UNCHANGED <<sessions, files, sequential, nextId>>
    /\ UNCHANGED OtherThanSessions

\* Mutant of Find: GetOrCreateSession does not consult ss.sessions
Find_IgnoresCache(p) ==
    /\ procs[p].pc = "find"
    /\ LET g == procs[p]
           k == g.key
           cached == g.op # "GetOrCreateSession" /\ k \in DOMAIN sessions
           ld == loadSession(files, k)
           found == cached \/ ~ld.err
           session == IF cached THEN sessions[k] ELSE ld.session
           created == StockSession(nextId + 1, g.name, << >>, << >>)
           list == IF cached THEN sequential[k] ELSE Contents(session.messages)
       IN /\ sessions' = IF found THEN MapPut(sessions, k, session)
                         ELSE IF g.op = "GetOrCreateSession" THEN MapPut(sessions, k, created)
                         ELSE sessions
          /\ nextId' = IF ~found /\ g.op = "GetOrCreateSession" THEN nextId + 1 ELSE nextId
          /\ sequential' = IF found
                           THEN [sequential EXCEPT ![k] = SequentialMessages(g.op, g.msgs, list)]
                           ELSE sequential
          /\ procs' = [procs EXCEPT ![p] =
                CASE g.op = "GetOrCreateSession" ->
                        IF found
                        THEN [g EXCEPT !.pc = "unlock",
                                       !.result = Result(FALSE, session.id, session.name,
                                                         session.messages)]
                        ELSE [g EXCEPT !.pc = "save",
                                       !.result = Result(FALSE, created.id, created.name, << >>)]
                  [] g.op \in Reads ->
                        [g EXCEPT !.pc = "unlock",
                                  !.expect = IF found THEN list ELSE << >>,
                                  !.result = IF found
                                             THEN Result(FALSE, session.id, session.name,
                                                         session.messages)
                                             ELSE NoResult]
                  [] OTHER ->
                        IF found
                        THEN [g EXCEPT !.pc = "mutate", !.read = session.messages]
                        ELSE [g EXCEPT !.pc = "unlock",
                                       !.result = Result(TRUE, 0, "", << >>)]]
    /\ UNCHANGED <<files, mu>>
    /\ UNCHANGED OtherThanSessions

\* The lookup in ss.sessions and, on a miss, loadSession; the methods that do not
\* write return from here
Find(p) ==
    /\ procs[p].pc = "find"
    /\ LET g == procs[p]
           k == g.key
           cached == k \in DOMAIN sessions
           ld == loadSession(files, k)
           found == cached \/ ~ld.err
           session == IF cached THEN sessions[k] ELSE ld.session
           created == StockSession(nextId + 1, g.name, << >>, << >>)
           list == IF cached THEN sequential[k] ELSE Contents(session.messages)
       IN /\ sessions' = IF found THEN MapPut(sessions, k, session)
                         ELSE IF g.op = "GetOrCreateSession" THEN MapPut(sessions, k, created)
                         ELSE sessions
          /\ nextId' = IF ~found /\ g.op = "GetOrCreateSession" THEN nextId + 1 ELSE nextId
          /\ sequential' = IF found
                           THEN [sequential EXCEPT ![k] = SequentialMessages(g.op, g.msgs, list)]
                           ELSE sequential
          /\ procs' = [procs EXCEPT ![p] =
                CASE g.op = "GetOrCreateSession" ->
                        IF found
                        THEN [g EXCEPT !.pc = "unlock",
                                       !.result = Result(FALSE, session.id, session.name,
                                                         session.messages)]
                        ELSE [g EXCEPT !.pc = "save",
                                       !.result = Result(FALSE, created.id, created.name, << >>)]
                  [] g.op \in Reads ->
                        [g EXCEPT !.pc = "unlock",
                                  !.expect = IF found THEN list ELSE << >>,
                                  !.result = IF found
                                             THEN Result(FALSE, session.id, session.name,
                                                         session.messages)
                                             ELSE NoResult]
                  [] OTHER ->
                        IF found
                        THEN [g EXCEPT !.pc = "mutate", !.read = session.messages]
                        ELSE [g EXCEPT !.pc = "unlock",
                                       !.result = Result(TRUE, 0, "", << >>)]]
    /\ UNCHANGED <<files, mu>>
    /\ UNCHANGED OtherThanSessions

\* The assignment to the session held in ss.sessions
Mutate(p) ==
    /\ procs[p].pc = "mutate"
    /\ LET g == procs[p]
       IN /\ sessions' =
                CASE g.op \in {"AddMessage", "AddMessages"} ->
                        [sessions EXCEPT ![g.key].messages = g.read \o WithIds(g.msgs, nextId)]
                  [] g.op = "ClearMessages" -> [sessions EXCEPT ![g.key].messages = << >>]
                  [] OTHER -> [sessions EXCEPT ![g.key].position = <<1>>]
          /\ nextId' = nextId + Len(g.msgs)
    /\ procs' = [procs EXCEPT ![p].pc = "save"]
    /\ UNCHANGED <<files, mu, sequential>>
    /\ UNCHANGED OtherThanSessions

\* return ss.saveSession(session)
Save(p, outcome) ==
    /\ procs[p].pc = "save"
    /\ LET g == procs[p]
           saved == saveSession(files, sessions[g.key], g.key, outcome)
       IN /\ files' = saved.files
          /\ procs' = [procs EXCEPT ![p].pc = "unlock", ![p].result.err = saved.err]
    /\ UNCHANGED <<sessions, mu, sequential, nextId>>
    /\ UNCHANGED OtherThanSessions

\* The deferred ss.mu.Unlock()
Unlock(p) ==
    /\ procs[p].pc = "unlock"
    /\ mu' = 0
    /\ procs' = [procs EXCEPT ![p].pc = "idle"]
    /\ UNCHANGED <<sessions, files, sequential, nextId>>
    /\ UNCHANGED OtherThanSessions

NextSessions ==
    \/ \E p \in Goroutines, op \in StoreOps, key \in SessionKeys, name \in StockNames :
          Call(p, op, key, IF op = "GetOrCreateSession" THEN name ELSE "")
    \/ \E p \in Goroutines : Lock(p)
    \/ \E p \in Goroutines : Find(p)
    \/ \E p \in Goroutines : Mutate(p)
    \/ \E p \in Goroutines, outcome \in WriteOutcomes : Save(p, outcome)
    \/ \E p \in Goroutines : Unlock(p)

SpecSessions == InitSessions /\ [][NextSessions]_vars

\* C24: the calls on a key take effect one at a time, in the order they took the
\* lock: whenever the lock is free the message list held for a key is the list that
\* the calls made so far produce when executed one after the other, and every list
\* GetMessages returned is the list of that sequential execution at its turn.
C24_Linearizable ==
    /\ mu = 0 => \A k \in DOMAIN sessions : Contents(sessions[k].messages) = sequential[k]
    /\ \A p \in Goroutines :
          procs[p].op = "GetMessages" /\ procs[p].pc \in {"unlock", "idle"} =>
              Contents(procs[p].result.messages) = procs[p].expect

\* Both goroutines have appended to the same key, one while the other waited for
\* the lock, and a GetMessages that followed returned both calls' messages
C24_Witness ==
    /\ mu = 0
    /\ \E k \in DOMAIN sessions :
          /\ \E i \in 1..Len(sequential[k]) : sequential[k][i][1] = 1
          /\ \E i \in 1..Len(sequential[k]) : sequential[k][i][1] = 2
          /\ Len(sessions[k].messages) >= 3
    /\ \E p \in Goroutines :
          /\ procs[p].op = "GetMessages"
          /\ procs[p].pc = "idle"
          /\ Len(procs[p].result.messages) >= 3

\* C25: whenever no call is in progress, the session held in memory for a key is
\* the content of that key's file.
C25_MemoryMirrorsFiles ==
    mu = 0 => \A k \in DOMAIN sessions : files[k] = <<FileOf(sessions[k])>>

----------------------------------------------------------------------------
(* Streams with two function-call items *)

\* The data lines of the streams of SpecItems, by the event type they follow: the
\* items "i1" and "i2", each with its added event, argument deltas and done event,
\* in any order
ItemDataFor(t) ==
    CASE t = EvFuncArgsDelta ->
            { FuncArgsDeltaData("i1", <<ArgOpen>>), FuncArgsDeltaData("i1", <<ArgClose>>),
              FuncArgsDeltaData("i2", FullArgs) }
      [] t = EvOutputItemAdded ->
            { ItemData(FunctionCallItem("i1", [call_id |-> "c1", name |-> "f"], << >>)),
              ItemData(FunctionCallItem("i2", [call_id |-> "c2", name |-> "g"], << >>)) }
      [] t = EvOutputItemDone ->
            { ItemData(FunctionCallItem("i1", [call_id |-> "c1", name |-> "f"], << >>)),
              ItemData(FunctionCallItem("i2", [call_id |-> "c2", name |-> "g"], FullArgs)) }
      [] t = EvCompleted -> { CompletedData(NoUsage) }
      [] OTHER -> { TextDeltaData(<<"a">>) }

NextItems ==
    \/ \E netErr \in BOOLEAN, status \in StatusCodes, body \in Bodies :
          generate(netErr, status, body)
    \/ \E netErr \in BOOLEAN, status \in StatusCodes, body \in Bodies :
          generateStream(netErr, status, body)
    \/ \E t \in EventTypes : ScanEventLine(t)
    \/ ScanOtherLine
    \/ \E data \in ItemDataFor(currentEventType), cont \in BOOLEAN : ScanDataLine(data, cont)
    \/ \E order \in Perms(DOMAIN toolCallsMap), end \in ScanEnds : ScanEnd(order, end)

SpecItems == Init /\ [][NextItems]_vars

\* The item an item event is about
ItemIdOf(e) == IF e.type = EvFuncArgsDelta THEN e.data.item_id ELSE e.data.item.id

\* The events of one item, in stream order
ItemEventsOf(k) == SelectSeq(itemEvents, LAMBDA e : ItemIdOf(e) = k)

\* The function-call part the final loop makes of a builder
BuilderPart(b) == FunctionCallPart(b.callID, b.name, parseJSONArgs(b.args))

\* C26: the function calls of the final streamed response are determined by each
\* item's own events in their own order: the builder of an item is the one its
\* events alone produce, wherever the events of other items fall between them, and
\* the calls of the final response are one part per builder, in some order.
C26_ItemsAreIndependent ==
    StreamFinished =>
        /\ DOMAIN toolCallsMap = { k \in ItemIds : DOMAIN ReplayItems(ItemEventsOf(k)) # {} }
        /\ \A k \in DOMAIN toolCallsMap : toolCallsMap[k] = ReplayItems(ItemEventsOf(k))[k]
        /\ \E order \in Perms(DOMAIN toolCallsMap) :
              FunctionCallParts(delivered[Len(delivered)].resp[1]) =
                 [i \in 1..Len(order) |-> BuilderPart(ReplayItems(ItemEventsOf(order[i]))[order[i]])]

\* A finished stream in which an event of "i2" fell between two events of "i1"
\* and both calls are in the final response, "i1" with its arguments complete
C26_Witness ==
    /\ StreamFinished
    /\ \E i, j, l \in 1..Len(itemEvents) :
          /\ i < j /\ j < l
          /\ ItemIdOf(itemEvents[i]) = "i1"
          /\ ItemIdOf(itemEvents[j]) = "i2"
          /\ ItemIdOf(itemEvents[l]) = "i1"
    /\ DOMAIN toolCallsMap = {"i1", "i2"}
    /\ toolCallsMap["i1"].args = FullArgs
    /\ Len(FunctionCallParts(delivered[Len(delivered)].resp[1])) = 2

----------------------------------------------------------------------------
(* Single steps of the item handlers *)

\* This step dispatched a well-formed event of this type to its handler
Handled(t) ==
    /\ pc = "scan"
    /\ currentEventType = t
    /\ Len(itemEvents') = Len(itemEvents) + 1

HandledEvent == itemEvents'[Len(itemEvents')]

\* C27: a function-arguments delta delivers nothing, logs nothing and leaves the
\* running text and the usage as they were; when no builder has its item id the
\* builder map is unchanged too, and when one has, only the argument buffer of that
\* builder changes, the delta being appended at its end.
C27_ArgsDeltaFrame ==
    [][Handled(EvFuncArgsDelta) =>
          LET id == HandledEvent.data.item_id
          IN /\ textContent' = textContent
             /\ usageMetadata' = usageMetadata
             /\ delivered' = delivered
             /\ warnings' = warnings
             /\ DOMAIN toolCallsMap' = DOMAIN toolCallsMap
             /\ \A k \in DOMAIN toolCallsMap : k # id => toolCallsMap'[k] = toolCallsMap[k]
             /\ id \in DOMAIN toolCallsMap =>
                   toolCallsMap'[id] =
                      [toolCallsMap[id] EXCEPT !.args = @ \o HandledEvent.data.delta]]_vars

\* A delta for "i2" arrived when only "i1" had a builder and was dropped, and the
\* two deltas of "i1" were appended to its buffer in order
C27_Witness ==
    /\ mode = "stream"
    /\ DOMAIN toolCallsMap = {"i1"}
    /\ toolCallsMap["i1"].args = FullArgs
    /\ Len(itemEvents) = 4
    /\ itemEvents[1].type = EvOutputItemAdded
    /\ \E j \in 2..4 : itemEvents[j].type = EvFuncArgsDelta /\ ItemIdOf(itemEvents[j]) = "i2"

\* C28: a done event for a function-call item that has a builder sets the builder's
\* call id and name to the event's, and its argument buffer to the event's
\* arguments when these are non-empty and leaves the buffer as accumulated when
\* they are empty; no other builder changes.
C28_DoneOverwritesBuilder ==
    [][(/\ Handled(EvOutputItemDone)
        /\ HandledEvent.data.item.type = "function_call"
        /\ HandledEvent.data.item.id \in DOMAIN toolCallsMap) =>
          LET item == HandledEvent.data.item
          IN /\ DOMAIN toolCallsMap' = DOMAIN toolCallsMap
             /\ \A k \in DOMAIN toolCallsMap : k # item.id => toolCallsMap'[k] = toolCallsMap[k]
             /\ toolCallsMap'[item.id].itemID = toolCallsMap[item.id].itemID
             /\ toolCallsMap'[item.id].callID = item.call_id
             /\ toolCallsMap'[item.id].name = item.name
             /\ toolCallsMap'[item.id].args =
                   IF item.arguments # << >> THEN item.arguments
                   ELSE toolCallsMap[item.id].args]_vars

\* The item was announced as call c1 of f and received a delta; its done event, with
\* empty arguments, named call c2 of g: the builder holds c2, g and the delta
C28_Witness ==
    /\ mode = "stream"
    /\ Len(itemEvents) = 3
    /\ itemEvents[1].type = EvOutputItemAdded
    /\ itemEvents[1].data.item.call_id = "c1"
    /\ itemEvents[2].type = EvFuncArgsDelta
    /\ itemEvents[3].type = EvOutputItemDone
    /\ itemEvents[3].data.item.arguments = << >>
    /\ toolCallsMap["i1"] = Builder("i1", "c2", "g", <<ArgOpen>>)

----------------------------------------------------------------------------
(* The end of a stream *)

\* C30: once processResponsesStream reads the body it delivers no error: however
\* the scan ends (end of the body, a read error, a line too long for the scanner,
\* a stream cut short) the call ends with the final response, partial = false,
\* turnComplete = true, finishReason = Stop, built from what was aggregated.
C30_StreamEndsWithFinalResponse ==
    (mode = "stream" /\ pc \in {"scan", "done"}) =>
        /\ \A i \in 1..Len(delivered) : delivered[i].err = << >>
        /\ pc = "done" =>
              /\ scanErr \in ScanEnds
              /\ \E order \in Perms(DOMAIN toolCallsMap) :
                    delivered[Len(delivered)] =
                       YieldResp(LLMResponse(
                          (IF textContent # << >> THEN <<TextPart(textContent)>> ELSE << >>) \o
                             [i \in 1..Len(order) |-> BuilderPart(toolCallsMap[order[i]])],
                          usageMetadata, "STOP", FALSE, TRUE))

\* The scanner failed after an event line whose data line never came, the
\* arguments of the call cut short and no completion event seen: the final
\* response was delivered with the call and empty arguments
C30_Witness ==
    /\ mode = "stream"
    /\ pc = "done"
    /\ scanErr = "error"
    /\ currentEventType = EvFuncArgsDelta
    /\ completions = << >>
    /\ DOMAIN toolCallsMap = {"i1"}
    /\ toolCallsMap["i1"].args = <<ArgOpen>>
    /\ delivered[Len(delivered)].resp[1].parts = <<FunctionCallPart("c1", "f", {})>>

----------------------------------------------------------------------------
(* Order of the blocks of the Messages API request *)

\* What a part is expected to become on the wire
ExpectedBlocks(part) ==
    IF part.thought THEN << >>
    ELSE CASE part.fc # << >> ->
                << ContentBlock("tool_use", << >>, part.fc[1].id, part.fc[1].name,
                                MarshalArgs(part.fc[1].args), "", << >>) >>
           [] part.fr # << >> ->
                << ContentBlock("tool_result", << >>, "", "", << >>, part.fr[1].id,
                                toToolResultContent(part.fr[1].response)) >>
           [] OTHER -> << TextBlock(part.text) >>

\* The expected blocks of the turns, in order, each with the wire role of its turn
ExpectedTagged(cs) ==
    Concat([i \in 1..Len(cs) |->
              Concat([j \in 1..Len(cs[i].parts) |->
                        [n \in 1..Len(ExpectedBlocks(cs[i].parts[j])) |->
                            [block |-> ExpectedBlocks(cs[i].parts[j])[n],
                             role |-> IF cs[i].role = "model" THEN "assistant"
                                      ELSE "user"]]])])

\* The blocks of the messages, in order, each with the role of its message
Tagged(msgs) ==
    Concat([i \in 1..Len(msgs) |->
              [n \in 1..Len(msgs[i].content) |->
                  [block |-> msgs[i].content[n], role |-> msgs[i].role]]])

SystemDowngraded ==
    /\ noSystemRole
    /\ systemInstruction # << >>
    /\ extractTextFromContent(systemInstruction) # << >>

\* C29: the blocks of the messages toAnthropicMessages returns, read in order
\* across the messages, are the translations of the non-thought parts of the turns
\* in turn and part order, each in a message of the wire role of its turn; the
\* request carries them so, behind the system text when that is downgraded into the
\* first user message.
C29_BlockOrderPreserved ==
    tpc = "doneB" =>
        /\ Tagged(toAnthropicMessages(contents)) = ExpectedTagged(contents)
        /\ Tagged(wireB.messages) =
              (IF SystemDowngraded
               THEN << [block |-> TextBlock(extractTextFromContent(systemInstruction)),
                        role |-> "user"] >>
               ELSE << >>) \o ExpectedTagged(contents)

\* Two user turns around a model turn without blocks, merged into one message: the
\* function response of the first turn, then the text of the third
C29_Witness ==
    /\ tpc = "doneB"
    /\ Len(contents) = 3
    /\ contents[1].role = "user" /\ contents[1].parts = <<FunctionResponsePart("c1", <<"{\"ok\":true}">>)>>
    /\ contents[2].role = "model" /\ contents[2].parts = << >>
    /\ contents[3].role = "user" /\ contents[3].parts = <<TextPart(<<"x">>)>>
    /\ ~SystemDowngraded
    /\ Len(wireB.messages) = 1
    /\ Len(wireB.messages[1].content) = 2
    /\ wireB.messages[1].content[1].type = "tool_result"

----------------------------------------------------------------------------
(* One session per key *)

SessionReturning == {"GetOrCreateSession", "GetSession"}

\* The goroutine holds a session returned (or about to be returned) by its call
HoldsSession(p) ==
    /\ procs[p].op \in SessionReturning
    /\ procs[p].pc \in {"save", "unlock", "idle"}
    /\ procs[p].result.id # 0

\* C31: the session held for a key is never replaced, and every session that
\* GetOrCreateSession or GetSession returns for the key is that session: all calls
\* get the same id and the same name, whatever name they passed.
C31_OneSessionPerKey ==
    /\ [](\A p \in Goroutines :
             HoldsSession(p) =>
                /\ procs[p].key \in DOMAIN sessions
                /\ procs[p].result.id = sessions[procs[p].key].id
                /\ procs[p].result.name = sessions[procs[p].key].name)
    /\ [][\A k \in DOMAIN sessions :
             /\ k \in DOMAIN sessions'
             /\ sessions'[k].id = sessions[k].id
             /\ sessions'[k].name = sessions[k].name]_vars

\* One goroutine created the session under the name n1; the other, calling
\* GetOrCreateSession with n2 meanwhile, was returned the same session, named n1
C31_Witness ==
    /\ HoldsSession(1) /\ HoldsSession(2)
    /\ procs[1].op = "GetOrCreateSession" /\ procs[1].name = "n1" /\ procs[1].calls = 1
    /\ procs[2].op = "GetOrCreateSession" /\ procs[2].name = "n2" /\ procs[2].calls = 1
    /\ procs[1].result.id = 1
    /\ procs[2].result.id = 1
    /\ procs[2].result.name = "n1"

====
